---- MODULE Spec2Model ----
(***************************************************************************)
(* IQ Puzzler: the orientation generator (pieces.js), the placement        *)
(* engine, the backtracking packer and the capped solution counter         *)
(* (solver.js), the puzzle generators (solver.js, challenges.js) and the   *)
(* game's placement handlers (game.js), as state machines.                 *)
(*                                                                         *)
(* Cells are pairs <<col, row>>; a shape is a sequence of cells; a board   *)
(* is board[row][col] with rows 0..ROWS-1 and columns 0..COLS-1, as in the *)
(* source.  Sequences are 1-based here, so an orientation index oi of the  *)
(* model is the source's oi + 1; records that leave the solver carry the   *)
(* source's 0-based orientationIndex.                                      *)
(***************************************************************************)
EXTENDS Integers, Sequences, FiniteSets, TLC

ROWS == 5
COLS == 11

\* JavaScript's null in a board cell.
NULL == "null"

\* pieces.js PIECES: id and base shape of the 12 pieces, in array order.
PIECES ==
  << [id |-> "A", shape |-> << <<0,0>>, <<1,0>>, <<2,0>>, <<2,1>> >>],
     [id |-> "B", shape |-> << <<0,0>>, <<1,0>>, <<1,1>>, <<2,1>>, <<2,2>> >>],
     [id |-> "C", shape |-> << <<0,0>>, <<1,0>>, <<2,0>>, <<1,1>> >>],
     [id |-> "D", shape |-> << <<0,0>>, <<1,0>>, <<2,0>>, <<3,0>>, <<3,1>> >>],
     [id |-> "E", shape |-> << <<0,0>>, <<1,0>>, <<1,1>>, <<2,1>>, <<3,1>> >>],
     [id |-> "F", shape |-> << <<0,0>>, <<1,0>>, <<2,0>>, <<3,0>>, <<1,1>> >>],
     [id |-> "G", shape |-> << <<0,0>>, <<0,1>>, <<1,1>>, <<2,1>>, <<3,1>> >>],
     [id |-> "H", shape |-> << <<0,0>>, <<1,0>>, <<2,0>>, <<3,0>>, <<0,1>> >>],
     [id |-> "I", shape |-> << <<0,0>>, <<1,0>>, <<2,0>>, <<0,1>>, <<2,1>> >>],
     [id |-> "J", shape |-> << <<0,0>>, <<0,1>>, <<1,1>>, <<1,2>>, <<2,2>> >>],
     [id |-> "K", shape |-> << <<0,0>>, <<1,0>>, <<0,1>>, <<1,1>> >>],
     [id |-> "L", shape |-> << <<0,0>>, <<1,0>>, <<2,0>> >>] >>

\* PIECES.map(p => p.id)
AllIds == [n \in 1..Len(PIECES) |-> PIECES[n].id]

PieceIds == {PIECES[n].id : n \in 1..Len(PIECES)}

\* pieces.js PIECE_MAP: id -> piece
PIECE_MAP == [p \in PieceIds |-> CHOOSE q \in {PIECES[n] : n \in 1..Len(PIECES)} : q.id = p]

\* PIECE_MAP[pid].shape.length
PieceSize(pid) == Len(PIECE_MAP[pid].shape)

\* pieces.js: totalBalls, the load-time sum of the pieces' cell counts
RECURSIVE SumSizes(_)
SumSizes(ps) == IF ps = <<>> THEN 0 ELSE Len(Head(ps).shape) + SumSizes(Tail(ps))

totalBalls == SumSizes(PIECES)

----------------------------------------------------------------------------
(* Sequence helpers standing for Math.min / Math.max / Array.sort.         *)

RECURSIVE SeqMin(_)
SeqMin(s) == IF Len(s) = 1 THEN s[1]
             ELSE LET m == SeqMin(Tail(s)) IN IF s[1] < m THEN s[1] ELSE m

RECURSIVE SeqMax(_)
SeqMax(s) == IF Len(s) = 1 THEN s[1]
             ELSE LET m == SeqMax(Tail(s)) IN IF s[1] > m THEN s[1] ELSE m

\* normalize's comparator: (a, b) => a[1] - b[1] || a[0] - b[0], negative
CellBefore(a, b) == a[2] < b[2] \/ (a[2] = b[2] /\ a[1] < b[1])

RECURSIVE InsertCell(_, _)
InsertCell(x, s) ==
  IF s = <<>> THEN <<x>>
  ELSE IF ~CellBefore(Head(s), x) THEN <<x>> \o s
  ELSE <<Head(s)>> \o InsertCell(x, Tail(s))

\* Array.prototype.sort with normalize's comparator (stable)
RECURSIVE SortCells(_)
SortCells(s) == IF s = <<>> THEN <<>> ELSE InsertCell(Head(s), SortCells(Tail(s)))

----------------------------------------------------------------------------
(* pieces.js: transformations and the orientation table.                   *)

normalize(shape) ==
  LET minCol == SeqMin([n \in 1..Len(shape) |-> shape[n][1]])
      minRow == SeqMin([n \in 1..Len(shape) |-> shape[n][2]])
  IN SortCells([n \in 1..Len(shape) |-> <<shape[n][1] - minCol, shape[n][2] - minRow>>])

\* Mutant of rotate90CW: the result is not normalized.
rotate90CWRaw(shape) ==
  LET maxRow == SeqMax([n \in 1..Len(shape) |-> shape[n][2]])
  IN [n \in 1..Len(shape) |-> <<maxRow - shape[n][2], shape[n][1]>>]

rotate90CW(shape) ==
  LET maxRow == SeqMax([n \in 1..Len(shape) |-> shape[n][2]])
  IN normalize([n \in 1..Len(shape) |-> <<maxRow - shape[n][2], shape[n][1]>>])

flipH(shape) ==
  LET maxCol == SeqMax([n \in 1..Len(shape) |-> shape[n][1]])
  IN normalize([n \in 1..Len(shape) |-> <<maxCol - shape[n][1], shape[n][2]>>])

\* shapeKey: the cells' coordinates joined in order ("c,r|c,r|..."); the
\* key is the flat list of the numbers the string is made of.
shapeKey(shape) == [n \in 1..2 * Len(shape) |->
                      IF n % 2 = 1 THEN shape[(n + 1) \div 2][1] ELSE shape[n \div 2][2]]

\* Mutant of RotLoop: every rotation is pushed, seen or not.
RECURSIVE RotLoopAll(_, _, _)
RotLoopAll(current, rot, acc) ==
  IF rot = 4 THEN acc
  ELSE RotLoopAll(rotate90CW(current), rot + 1,
                  [seen |-> acc.seen \cup {shapeKey(current)},
                   orientations |-> Append(acc.orientations, current)])

\* The inner loop of getAllOrientations: rot = 0..3 from `current`.
RECURSIVE RotLoop(_, _, _)
RotLoop(current, rot, acc) ==
  IF rot = 4 THEN acc
  ELSE LET key == shapeKey(current)
           acc2 == IF key \notin acc.seen
                   THEN [seen |-> acc.seen \cup {key},
                         orientations |-> Append(acc.orientations, current)]
                   ELSE acc
       IN RotLoop(rotate90CW(current), rot + 1, acc2)

\* Mutant of getAllOrientations: the rotations only, without the mirrored
\* shape's.
getAllOrientationsRotations(baseShape) ==
  RotLoop(normalize(baseShape), 0, [seen |-> {}, orientations |-> <<>>]).orientations

\* Mutant of getAllOrientations: the mirrored shape is taken first.
getAllOrientationsMirrorFirst(baseShape) ==
  LET normalized == normalize(baseShape)
      a1 == RotLoop(flipH(normalized), 0, [seen |-> {}, orientations |-> <<>>])
      a2 == RotLoop(normalized, 0, a1)
  IN a2.orientations

getAllOrientations(baseShape) ==
  LET normalized == normalize(baseShape)
      a1 == RotLoop(normalized, 0, [seen |-> {}, orientations |-> <<>>])
      a2 == RotLoop(flipH(normalized), 0, a1)
  IN a2.orientations

\* pieces.js ORIENTATIONS: piece id -> its distinct orientations
ORIENTATIONS == [p \in PieceIds |-> getAllOrientations(PIECE_MAP[p].shape)]

----------------------------------------------------------------------------
(* solver.js: board utilities.                                             *)

createEmptyBoard == [r \in 0..ROWS-1 |-> [c \in 0..COLS-1 |-> NULL]]

\* findFirstEmpty's null: no empty cell.
NoCell == [col |-> -1, row |-> -1]

\* Mutant of findFirstEmpty: the scan goes column by column (column
\* ascending, then row ascending).
findFirstEmptyByColumn(board) ==
  LET empty == {n \in 0..ROWS*COLS-1 : board[n % ROWS][n \div ROWS] = NULL}
  IN IF empty = {} THEN NoCell
     ELSE LET first == CHOOSE n \in empty : \A m \in empty : n <= m
          IN [col |-> first \div ROWS, row |-> first % ROWS]

\* findFirstEmpty: the first empty cell in row-major order (row ascending,
\* then column ascending), or NoCell.  A cell's row-major rank is
\* row * COLS + col; the scan returns the empty cell of least rank.
findFirstEmpty(board) ==
  LET empty == {n \in 0..ROWS*COLS-1 : board[n \div COLS][n % COLS] = NULL}
  IN IF empty = {} THEN NoCell
     ELSE LET first == CHOOSE n \in empty : \A m \in empty : n <= m
          IN [col |-> first % COLS, row |-> first \div COLS]

\* Mutant of canPlace: only the grid's bounds are tested.
canPlaceInGrid(board, shape, col, row) ==
  \A n \in 1..Len(shape) :
    /\ row + shape[n][2] >= 0 /\ row + shape[n][2] < ROWS
    /\ col + shape[n][1] >= 0 /\ col + shape[n][1] < COLS

canPlace(board, shape, col, row) ==
  \A n \in 1..Len(shape) :
    LET c == col + shape[n][1]
        r == row + shape[n][2]
    IN r >= 0 /\ r < ROWS /\ c >= 0 /\ c < COLS /\ board[r][c] = NULL

\* shape.forEach(([dc, dr]) => board[row + dr][col + dc] = value)
RECURSIVE WriteCells(_, _, _, _, _, _)
WriteCells(board, value, shape, col, row, n) ==
  IF n > Len(shape) THEN board
  ELSE WriteCells([board EXCEPT ![row + shape[n][2]][col + shape[n][1]] = value],
                  value, shape, col, row, n + 1)

\* Mutant of removePiece: the offset (col, row) is not applied.
removePieceAtOrigin(board, pieceId, shape, col, row) == WriteCells(board, NULL, shape, 0, 0, 1)

\* Mutant of removePiece: the cells are left as they are.
removePieceKeeps(board, pieceId, shape, col, row) == board

placePiece(board, pieceId, shape, col, row) == WriteCells(board, pieceId, shape, col, row, 1)

removePiece(board, pieceId, shape, col, row) == WriteCells(board, NULL, shape, col, row, 1)

----------------------------------------------------------------------------
(* solver.js: island pruning.                                              *)

InGrid(c, r) == r >= 0 /\ r < ROWS /\ c >= 0 /\ c < COLS

\* bfsRegionSize: the queue loop; visited is the set of marked cells.
RECURSIVE bfsLoop(_, _, _, _)
bfsLoop(board, queue, visited, size) ==
  IF queue = <<>> THEN [size |-> size, visited |-> visited]
  ELSE LET c == Head(queue)[1]
           r == Head(queue)[2]
           neighbors == << <<c-1, r>>, <<c+1, r>>, <<c, r-1>>, <<c, r+1>> >>
           fresh == SelectSeq(neighbors,
                      LAMBDA nb : InGrid(nb[1], nb[2]) /\ board[nb[2]][nb[1]] = NULL
                                  /\ nb \notin visited)
       IN bfsLoop(board, Tail(queue) \o fresh,
                  visited \cup {fresh[n] : n \in 1..Len(fresh)}, size + 1)

bfsRegionSize(board, visited, startCol, startRow) ==
  bfsLoop(board, << <<startCol, startRow>> >>, visited \cup {<<startCol, startRow>>}, 0)

\* hasDeadIslands: the row-major scan; each step goes to the next empty
\* cell not yet visited (the cells in between are skipped by the scan).
RECURSIVE IslandScan(_, _, _)
IslandScan(board, minPieceSize, visited) ==
  LET open == {n \in 0..ROWS*COLS-1 :
                 board[n \div COLS][n % COLS] = NULL /\ <<n % COLS, n \div COLS>> \notin visited}
  IN IF open = {} THEN FALSE
     ELSE LET first == CHOOSE n \in open : \A m \in open : n <= m
              reg == bfsRegionSize(board, visited, first % COLS, first \div COLS)
          IN IF reg.size < minPieceSize THEN TRUE
             ELSE IslandScan(board, minPieceSize, reg.visited)

\* Mutant of hasDeadIslands: a region as large as the smallest piece is dead
\* too (size <= minPieceSize).
hasDeadIslandsTight(board, minPieceSize) ==
  IF minPieceSize <= 1 THEN FALSE
  ELSE IslandScan(board, minPieceSize + 1, {})

hasDeadIslands(board, minPieceSize) ==
  IF minPieceSize <= 1 THEN FALSE
  ELSE IslandScan(board, minPieceSize, {})

\* Mutant of newMinOf: the threshold stays at the 3 the search starts with.
newMinOfStale(ids) == 3

\* let newMin = Infinity; for (pid of ids) ...; if (!isFinite(newMin)) newMin = 1
newMinOf(ids) ==
  IF ids = <<>> THEN 1 ELSE SeqMin([n \in 1..Len(ids) |-> PieceSize(ids[n])])

----------------------------------------------------------------------------
(* The state of one search call.                                           *)

VARIABLES
  heap,               \* the board objects: heap[ref] is the board behind a reference
  callBoard,          \* the reference the caller passes as `board`
  workBoard,          \* the reference the search functions write through
  boardAtCall,        \* the caller's board as it was when the call was made
  availablePieceIds,  \* the caller's piece-id array
  idsAtCall,          \* that array as it was when the call was made
  mode,               \* "solve" | "ordered" | "count": the function called
  maxCount,           \* countSolutions' cap
  remaining,          \* the Set of _solve/_countSolve, in insertion order
  solution,           \* the solution array (a stack of placements)
  counter,            \* counter.count
  stack,              \* the active frames of _solve/_solveOrdered/_countSolve
  pc,                 \* "idle" | "call" | "run" | "done"
  result,             \* the value returned to the caller
  drv,                \* the caller of the search functions: its locals
  ui                  \* game.js: the state object and the module's variables

vars == <<heap, callBoard, workBoard, boardAtCall, availablePieceIds, idsAtCall,
          mode, maxCount, remaining, solution, counter, stack, pc, result, drv, ui>>

\* game.js not loaded: the search functions run on their own
NoPage == <<>>

\* What belongs to the caller of a search function and to the rest of the
\* program: no step of a search changes it.
callerVars == <<callBoard, boardAtCall, availablePieceIds, idsAtCall, mode, maxCount, drv, ui>>

NoResult == [isNull |-> TRUE, value |-> <<>>, count |-> 0]

\* Mutant of cloneBoard: the caller's board object itself is the work board.
cloneBoardAlias(h, ref) == [heap |-> h, ref |-> ref]

\* board.map(row => [...row]): a new board object holding the same values
cloneBoard(h, ref) ==
  [heap |-> Append(h, [r \in 0..ROWS-1 |-> [c \in 0..COLS-1 |-> h[ref][r][c]]]),
   ref  |-> Len(h) + 1]

\* new Set(array): the distinct elements in order of first occurrence
RECURSIVE NewSet(_)
NewSet(arr) ==
  IF arr = <<>> THEN <<>>
  ELSE LET init == NewSet(SubSeq(arr, 1, Len(arr) - 1))
           x == arr[Len(arr)]
       IN IF \E n \in 1..Len(init) : init[n] = x THEN init ELSE Append(init, x)

SetDelete(set, x) == SelectSeq(set, LAMBDA y : y # x)

\* Mutant of SetAdd: the piece is not put back.
SetAddDrops(set, x) == set

SetAdd(set, x) == IF \E n \in 1..Len(set) : set[n] = x THEN set ELSE Append(set, x)

RECURSIVE InsertBySize(_, _)
InsertBySize(x, s) ==
  IF s = <<>> THEN <<x>>
  ELSE IF PieceSize(Head(s)) <= PieceSize(x) THEN <<x>> \o s
  ELSE <<Head(s)>> \o InsertBySize(x, Tail(s))

\* [...remaining].sort((a, b) => size(b) - size(a)): larger first, stable
RECURSIVE SortLargerFirst(_)
SortLargerFirst(s) ==
  IF s = <<>> THEN <<>> ELSE InsertBySize(Head(s), SortLargerFirst(Tail(s)))

\* A frame of the recursive search: st is "enter" before the frame's first
\* statement, "loop" inside its three nested loops, and "ret" when it is
\* about to return (counter only).  In the loops (i, oi, k) is the next
\* candidate of ids the loops reach whose canPlace holds (piece i of ids,
\* orientation oi, cell k on the target <<tc, tr>>), and i > Len(ids) when
\* they reach none: the candidates that do not fit change nothing.
NewFrame(ids) == [st |-> "enter", ids |-> ids, i |-> 1, oi |-> 1, k |-> 1, tc |-> 0, tr |-> 0]

Top == stack[Len(stack)]

Pop(s) == SubSeq(s, 1, Len(s) - 1)

SetTop(s, f) == [s EXCEPT ![Len(s)] = f]

\* The loops' next candidate after (i, oi, k): cell, then orientation, then piece.
NextPos(ids, i, oi, k) ==
  LET orientations == ORIENTATIONS[ids[i]]
  IN IF k < Len(orientations[oi]) THEN <<i, oi, k + 1>>
     ELSE IF oi < Len(orientations) THEN <<i, oi + 1, 1>>
     ELSE <<i + 1, 1, 1>>

\* for (const [dc, dr] of shape): the first cell k >= k0 of the shape whose
\* landing on the target makes the shape fit, or 0.
RECURSIVE FitCell(_, _, _, _, _)
FitCell(board, shape, tc, tr, k) ==
  IF k > Len(shape) THEN 0
  ELSE IF canPlace(board, shape, tc - shape[k][1], tr - shape[k][2]) THEN k
  ELSE FitCell(board, shape, tc, tr, k + 1)

\* for (let oi ...): the first <<oi, k>> at or after <<oi0, k0>> that fits,
\* or <<0, 0>>.
RECURSIVE FitOrientation(_, _, _, _, _, _)
FitOrientation(board, orientations, tc, tr, oi, k) ==
  IF oi > Len(orientations) THEN <<0, 0>>
  ELSE LET kk == FitCell(board, orientations[oi], tc, tr, k)
       IN IF kk > 0 THEN <<oi, kk>>
          ELSE FitOrientation(board, orientations, tc, tr, oi + 1, 1)

\* The first candidate at or after pos, in the loops' order (piece, then
\* orientation, then cell), for which canPlace holds; a position with
\* pos[1] > Len(ids) when the loops run out.
RECURSIVE FirstFit(_, _, _, _, _)
FirstFit(board, ids, tc, tr, pos) ==
  IF pos[1] > Len(ids) THEN pos
  ELSE LET hit == FitOrientation(board, ORIENTATIONS[ids[pos[1]]], tc, tr, pos[2], pos[3])
       IN IF hit[1] > 0 THEN <<pos[1], hit[1], hit[2]>>
          ELSE FirstFit(board, ids, tc, tr, <<pos[1] + 1, 1, 1>>)

\* The placement a frame's candidate (i, oi, k) stands for.
PlacementOf(f) ==
  LET pieceId == f.ids[f.i]
      shape == ORIENTATIONS[pieceId][f.oi]
  IN [pieceId |-> pieceId, shape |-> shape,
      col |-> f.tc - shape[f.k][1], row |-> f.tr - shape[f.k][2],
      orientationIndex |-> f.oi - 1]

\* The frame in its loops, at the first candidate at or after pos that fits.
SeekFit(board, f, pos) ==
  LET hit == FirstFit(board, f.ids, f.tc, f.tr, pos)
  IN [f EXCEPT !.st = "loop", !.i = hit[1], !.oi = hit[2], !.k = hit[3]]

\* The loops go on after candidate (i, oi, k) of f, on `board`.
Advance(board, f) == SeekFit(board, f, NextPos(f.ids, f.i, f.oi, f.k))

\* The frame on entering its loops with `target` and the piece list ids.
EnterLoops(board, ids, target) ==
  SeekFit(board, [NewFrame(ids) EXCEPT !.tc = target.col, !.tr = target.row], <<1, 1, 1>>)

----------------------------------------------------------------------------
(* solve and _solve.                                                       *)

\* solve(board, availablePieceIds), up to the call of _solve
SolveCall ==
  /\ pc = "call" /\ mode = "solve"
  /\ LET cl == cloneBoard(heap, callBoard)
         sortedIds == SortLargerFirst(NewSet(availablePieceIds))
     IN /\ heap' = cl.heap
        /\ workBoard' = cl.ref
        /\ remaining' = sortedIds
        /\ solution' = <<>>
        /\ stack' = <<NewFrame(sortedIds)>>
  /\ pc' = "run"
  /\ UNCHANGED <<callerVars, counter, result>>

\* _solve, lines 205-211: the target cell, or `return true` on a full board;
\* true is handed up through every caller and solve returns the solution.
SolveEnter ==
  /\ pc = "run" /\ mode = "solve" /\ Top.st = "enter"
  /\ LET target == findFirstEmpty(heap[workBoard])
     IN IF target = NoCell
        THEN /\ pc' = "done"
             /\ result' = [isNull |-> FALSE, value |-> solution, count |-> 0]
             /\ stack' = <<>>
        ELSE /\ stack' = SetTop(stack, EnterLoops(heap[workBoard], remaining, target))
             /\ UNCHANGED <<pc, result>>
  /\ UNCHANGED <<callerVars, heap, workBoard, remaining, solution, counter>>

\* _solve, lines 214-254: the loops up to and including the next candidate
\* that fits: place, delete, island check, then recurse or undo.
SolveTry ==
  /\ pc = "run" /\ mode = "solve" /\ Top.st = "loop"
  /\ Top.i <= Len(Top.ids)
  /\ LET p == PlacementOf(Top)
         placed == placePiece(heap[workBoard], p.pieceId, p.shape, p.col, p.row)
         rem == SetDelete(remaining, p.pieceId)
         newMin == newMinOf(rem)
     IN IF ~hasDeadIslands(placed, newMin)
        THEN /\ heap' = [heap EXCEPT ![workBoard] = placed]
             /\ remaining' = rem
             /\ solution' = Append(solution, p)
             /\ stack' = Append(stack, NewFrame(rem))
        ELSE LET undone == removePiece(placed, p.pieceId, p.shape, p.col, p.row)
             IN /\ heap' = [heap EXCEPT ![workBoard] = undone]
                /\ remaining' = SetAdd(rem, p.pieceId)
                /\ solution' = solution
                /\ stack' = SetTop(stack, Advance(undone, Top))
  /\ UNCHANGED <<callerVars, workBoard, counter, pc, result>>

\* _solve, line 259 and the caller's lines 249-253: the loops ran out, the
\* frame returns false; its caller pops the solution, re-adds the piece and
\* removes it from the board.  The outermost false makes solve return null.
SolveReturn ==
  /\ pc = "run" /\ mode = "solve" /\ Top.st = "loop"
  /\ Top.i > Len(Top.ids)
  /\ IF Len(stack) = 1
     THEN /\ pc' = "done"
          /\ result' = NoResult
          /\ stack' = <<>>
          /\ UNCHANGED <<heap, remaining, solution>>
     ELSE LET parent == stack[Len(stack) - 1]
              p == PlacementOf(parent)
              undone == removePiece(heap[workBoard], p.pieceId, p.shape, p.col, p.row)
          IN /\ solution' = Pop(solution)
             /\ remaining' = SetAdd(remaining, p.pieceId)
             /\ heap' = [heap EXCEPT ![workBoard] = undone]
             /\ stack' = SetTop(Pop(stack), Advance(undone, parent))
             /\ UNCHANGED <<pc, result>>
  /\ UNCHANGED <<callerVars, workBoard, counter>>

----------------------------------------------------------------------------
(* solveWithOrder and _solveOrdered.                                       *)

\* remainingIds.slice(0, i).concat(remainingIds.slice(i + 1))
WithoutIndex(arr, i) == SubSeq(arr, 1, i - 1) \o SubSeq(arr, i + 1, Len(arr))

\* solveWithOrder(board, orderedPieceIds), up to the call of _solveOrdered;
\* the caller's array itself is the outermost frame's remainingIds.
OrderedCall ==
  /\ pc = "call" /\ mode = "ordered"
  /\ LET cl == cloneBoard(heap, callBoard)
     IN /\ heap' = cl.heap
        /\ workBoard' = cl.ref
  /\ solution' = <<>>
  /\ stack' = <<NewFrame(availablePieceIds)>>
  /\ pc' = "run"
  /\ UNCHANGED <<callerVars, remaining, counter, result>>

\* _solveOrdered, lines 156-159
OrderedEnter ==
  /\ pc = "run" /\ mode = "ordered" /\ Top.st = "enter"
  /\ LET target == findFirstEmpty(heap[workBoard])
     IN IF target = NoCell
        THEN /\ pc' = "done"
             /\ result' = [isNull |-> FALSE, value |-> solution, count |-> 0]
             /\ stack' = <<>>
        ELSE /\ stack' = SetTop(stack, EnterLoops(heap[workBoard], Top.ids, target))
             /\ UNCHANGED <<pc, result>>
  /\ UNCHANGED <<callerVars, heap, workBoard, remaining, solution, counter>>

\* _solveOrdered, lines 161-196
OrderedTry ==
  /\ pc = "run" /\ mode = "ordered" /\ Top.st = "loop"
  /\ Top.i <= Len(Top.ids)
  /\ LET p == PlacementOf(Top)
         placed == placePiece(heap[workBoard], p.pieceId, p.shape, p.col, p.row)
         newRemaining == WithoutIndex(Top.ids, Top.i)
         newMin == newMinOf(newRemaining)
     IN IF ~hasDeadIslands(placed, newMin)
        THEN /\ heap' = [heap EXCEPT ![workBoard] = placed]
             /\ solution' = Append(solution, p)
             /\ stack' = Append(stack, NewFrame(newRemaining))
        ELSE LET undone == removePiece(placed, p.pieceId, p.shape, p.col, p.row)
             IN /\ heap' = [heap EXCEPT ![workBoard] = undone]
                /\ solution' = solution
                /\ stack' = SetTop(stack, Advance(undone, Top))
  /\ UNCHANGED <<callerVars, workBoard, remaining, counter, pc, result>>

\* _solveOrdered, line 201 and the caller's lines 192-195
OrderedReturn ==
  /\ pc = "run" /\ mode = "ordered" /\ Top.st = "loop"
  /\ Top.i > Len(Top.ids)
  /\ IF Len(stack) = 1
     THEN /\ pc' = "done"
          /\ result' = NoResult
          /\ stack' = <<>>
          /\ UNCHANGED <<heap, solution>>
     ELSE LET parent == stack[Len(stack) - 1]
              p == PlacementOf(parent)
              undone == removePiece(heap[workBoard], p.pieceId, p.shape, p.col, p.row)
          IN /\ solution' = Pop(solution)
             /\ heap' = [heap EXCEPT ![workBoard] = undone]
             /\ stack' = SetTop(Pop(stack), Advance(undone, parent))
             /\ UNCHANGED <<pc, result>>
  /\ UNCHANGED <<callerVars, workBoard, remaining, counter>>

----------------------------------------------------------------------------
(* countSolutions and _countSolve.                                         *)

\* The frame has reached a return statement or the end of its loops.
Returning(f) == IF f.st = "loop" THEN f.i > Len(f.ids) ELSE f.st = "ret"

\* Mutant of AtCap: the short circuit is taken out.
AtCapOff(count, cap) == FALSE

\* Mutant of AtCap: the comparison is strict.
AtCapStrict(count, cap) == count > cap

\* counter.count >= maxCount, lines 280 and 316
AtCap(count, cap) == count >= cap

\* countSolutions(board, availablePieceIds, maxCount), up to the call of
\* _countSolve
CountCall ==
  /\ pc = "call" /\ mode = "count"
  /\ LET cl == cloneBoard(heap, callBoard)
     IN /\ heap' = cl.heap
        /\ workBoard' = cl.ref
  /\ remaining' = NewSet(availablePieceIds)
  /\ counter' = 0
  /\ stack' = <<NewFrame(<<>>)>>
  /\ pc' = "run"
  /\ UNCHANGED <<callerVars, solution, result>>

\* _countSolve, lines 280-291: return at the cap; count a full board and
\* return; else enter the loops over a snapshot of remaining.
CountEnter ==
  /\ pc = "run" /\ mode = "count" /\ Top.st = "enter"
  /\ IF AtCap(counter, maxCount)
     THEN /\ stack' = SetTop(stack, [Top EXCEPT !.st = "ret"])
          /\ counter' = counter
     ELSE LET target == findFirstEmpty(heap[workBoard])
          IN IF target = NoCell
             THEN /\ counter' = counter + 1
                  /\ stack' = SetTop(stack, [Top EXCEPT !.st = "ret"])
             ELSE /\ counter' = counter
                  /\ stack' = SetTop(stack, EnterLoops(heap[workBoard], remaining, target))
  /\ UNCHANGED <<callerVars, heap, workBoard, remaining, solution, pc, result>>

\* _countSolve, lines 293-325, up to the recursive call or the undo after a
\* dead island
CountTry ==
  /\ pc = "run" /\ mode = "count" /\ Top.st = "loop"
  /\ Top.i <= Len(Top.ids)
  /\ LET p == PlacementOf(Top)
         placed == placePiece(heap[workBoard], p.pieceId, p.shape, p.col, p.row)
         rem == SetDelete(remaining, p.pieceId)
         newMin == newMinOf(rem)
     IN IF ~hasDeadIslands(placed, newMin)
        THEN /\ heap' = [heap EXCEPT ![workBoard] = placed]
             /\ remaining' = rem
             /\ stack' = Append(stack, NewFrame(<<>>))
        ELSE LET undone == removePiece(placed, p.pieceId, p.shape, p.col, p.row)
             IN /\ heap' = [heap EXCEPT ![workBoard] = undone]
                /\ remaining' = SetAdd(rem, p.pieceId)
                /\ stack' = SetTop(stack, Advance(undone, Top))
  /\ UNCHANGED <<callerVars, workBoard, solution, counter, pc, result>>

\* A _countSolve frame returns (at the cap, after counting, or with its
\* loops run out) and its caller goes on at line 316: at the cap it undoes
\* its placement and returns too, else it undoes it and goes on looping.
\* The outermost return makes countSolutions return counter.count.
CountReturn ==
  /\ pc = "run" /\ mode = "count"
  /\ Returning(Top)
  /\ IF Len(stack) = 1
     THEN /\ pc' = "done"
          /\ result' = [isNull |-> FALSE, value |-> <<>>, count |-> counter]
          /\ stack' = <<>>
          /\ UNCHANGED <<heap, remaining>>
     ELSE LET parent == stack[Len(stack) - 1]
              p == PlacementOf(parent)
              undone == removePiece(heap[workBoard], p.pieceId, p.shape, p.col, p.row)
          IN /\ remaining' = SetAdd(remaining, p.pieceId)
             /\ heap' = [heap EXCEPT ![workBoard] = undone]
             /\ stack' = SetTop(Pop(stack),
                                IF AtCap(counter, maxCount) THEN [parent EXCEPT !.st = "ret"]
                                ELSE Advance(undone, parent))
             /\ UNCHANGED <<pc, result>>
  /\ UNCHANGED <<callerVars, workBoard, solution, counter>>

----------------------------------------------------------------------------
(* Specifications.                                                         *)

\* The state in which a caller has called one of the search functions.
Called(b, ids, m, cap) ==
  /\ heap = <<b>>
  /\ callBoard = 1
  /\ workBoard = 1
  /\ boardAtCall = b
  /\ availablePieceIds = ids
  /\ idsAtCall = ids
  /\ mode = m
  /\ maxCount = cap
  /\ remaining = <<>>
  /\ solution = <<>>
  /\ counter = 0
  /\ stack = <<>>
  /\ pc = "call"
  /\ result = NoResult
  /\ drv = [phase |-> "call"]
  /\ ui = NoPage

----------------------------------------------------------------------------
(* What the search is measured against: exact covers counted piece by      *)
(* piece over sets of cells, and regions by reachability.                  *)

Min(a, b) == IF a < b THEN a ELSE b

EmptyCells(board) == {cell \in (0..COLS-1) \X (0..ROWS-1) : board[cell[2]][cell[1]] = NULL}

ShapeCells(shape, col, row) == {<<col + shape[n][1], row + shape[n][2]>> : n \in 1..Len(shape)}

\* Every set of cells inside E that some orientation of the piece covers at
\* some offset: a shape inside E has its first cell on a cell of E.
PlacementsIn(E, pieceId) ==
  LET O == ORIENTATIONS[pieceId]
  IN {cells \in {ShapeCells(O[oi], e[1] - O[oi][1][1], e[2] - O[oi][1][2]) :
                   oi \in 1..Len(O), e \in E}
        : cells \subseteq E}

RECURSIVE TotalSize(_)
TotalSize(ids) == IF ids = <<>> THEN 0 ELSE PieceSize(Head(ids)) + TotalSize(Tail(ids))

RECURSIVE SumOver(_, _, _)
\* The sum of F(x, arg) over the x of S
SumOver(S, F(_, _), arg) ==
  IF S = {} THEN 0
  ELSE LET x == CHOOSE y \in S : TRUE
       IN F(x, arg) + SumOver(S \ {x}, F, arg)

\* The number of ways to partition the cells E into placements of distinct
\* pieces of the list ids (a piece may stay unused): the first piece is
\* either unused or takes one of its placements inside E.
RECURSIVE CountCovers(_, _)
CountCovers(E, ids) ==
  IF E = {} THEN 1
  ELSE IF Cardinality(E) > TotalSize(ids) THEN 0
  ELSE LET rest == Tail(ids)
           With(cells, e) == CountCovers(e \ cells, rest)
       IN CountCovers(E, rest) + SumOver(PlacementsIn(E, Head(ids)), With, E)

NumCovers(board, ids) == CountCovers(EmptyCells(board), NewSet(ids))

Adjacent(a, b) ==
  \/ a[1] = b[1] /\ (a[2] = b[2] + 1 \/ b[2] = a[2] + 1)
  \/ a[2] = b[2] /\ (a[1] = b[1] + 1 \/ b[1] = a[1] + 1)

\* The cells of E reachable from the cells of R through adjacent cells of E
RECURSIVE Reach(_, _)
Reach(E, R) ==
  LET more == {cell \in E \ R : \E x \in R : Adjacent(cell, x)}
  IN IF more = {} THEN R ELSE Reach(E, R \cup more)

\* Some 4-connected region of empty cells has fewer cells than the smallest
\* of the pieces ids (a non-empty list).
DeadRegion(board, ids) ==
  LET E == EmptyCells(board)
  IN \E cell \in E : \A n \in 1..Len(ids) : Cardinality(Reach(E, {cell})) < PieceSize(ids[n])

----------------------------------------------------------------------------
(* Inputs of the search functions.                                         *)

\* The placements of one full cover (the one solve finds on the empty
\* board); boards with some of these pieces lifted off are the inputs.
ReferenceSolution ==
  << [pieceId |-> "B", orientationIndex |-> 0, col |-> 0, row |-> 0],
     [pieceId |-> "D", orientationIndex |-> 0, col |-> 2, row |-> 0],
     [pieceId |-> "E", orientationIndex |-> 0, col |-> 6, row |-> 0],
     [pieceId |-> "A", orientationIndex |-> 0, col |-> 8, row |-> 0],
     [pieceId |-> "F", orientationIndex |-> 7, col |-> 0, row |-> 1],
     [pieceId |-> "K", orientationIndex |-> 0, col |-> 3, row |-> 1],
     [pieceId |-> "J", orientationIndex |-> 0, col |-> 6, row |-> 1],
     [pieceId |-> "G", orientationIndex |-> 4, col |-> 2, row |-> 2],
     [pieceId |-> "I", orientationIndex |-> 1, col |-> 8, row |-> 2],
     [pieceId |-> "L", orientationIndex |-> 1, col |-> 10, row |-> 2],
     [pieceId |-> "H", orientationIndex |-> 6, col |-> 1, row |-> 3],
     [pieceId |-> "C", orientationIndex |-> 2, col |-> 5, row |-> 3] >>

\* for (const p of placements) placePiece(board, p.pieceId, shape, p.col, p.row)
RECURSIVE PlaceAll(_, _)
PlaceAll(board, placements) ==
  IF placements = <<>> THEN board
  ELSE LET p == Head(placements)
       IN PlaceAll(placePiece(board, p.pieceId, ORIENTATIONS[p.pieceId][p.orientationIndex + 1],
                              p.col, p.row),
                   Tail(placements))

\* for (const p of prePlaced) placePiece(testBoard, p.pieceId, p.shape, p.col, p.row)
RECURSIVE WriteAll(_, _)
WriteAll(board, placements) ==
  IF placements = <<>> THEN board
  ELSE LET p == Head(placements)
       IN WriteAll(placePiece(board, p.pieceId, p.shape, p.col, p.row), Tail(placements))

\* The most pieces lifted off the reference cover in an input board
MaxPlayer == 3

\* The largest cap passed to countSolutions
MaxCap == 3

\* The reference placements at the indices of S, in order
Picked(S) == SelectSeq(ReferenceSolution, LAMBDA p : \E n \in S : ReferenceSolution[n] = p)

PickedIds(S) == LET ps == Picked(S) IN [n \in 1..Len(ps) |-> ps[n].pieceId]

\* The reference placements that may be lifted: B, D, K, J, G, L, H, C
\* (the three L-pentominoes D, G, H and the two W-pentominoes B, J among
\* them).
Liftable == {1, 2, 6, 7, 8, 10, 11, 12}

\* A call of solve, solveWithOrder or countSolutions on the reference cover
\* with the pieces `lifted` taken off, offering those pieces, or all but the
\* first of them, or those and piece L besides.
InitSearch ==
  \E lifted \in SUBSET Liftable :
    /\ Cardinality(lifted) <= MaxPlayer
    /\ \E m \in {"solve", "ordered", "count"} :
       \E cap \in (IF m = "count" THEN 0..MaxCap ELSE {2}) :
       \E ids \in {PickedIds(lifted),
                   SubSeq(PickedIds(lifted), 2, Len(PickedIds(lifted))),
                   NewSet(PickedIds(lifted) \o <<"L">>)} :
         Called(PlaceAll(createEmptyBoard, Picked((1..Len(ReferenceSolution)) \ lifted)),
                ids, m, cap)

NextSearch ==
  \/ SolveCall \/ SolveEnter \/ SolveTry \/ SolveReturn
  \/ OrderedCall \/ OrderedEnter \/ OrderedTry \/ OrderedReturn
  \/ CountCall \/ CountEnter \/ CountTry \/ CountReturn

SpecSearch == InitSearch /\ [][NextSearch]_vars

\* solve(createEmptyBoard(), PIECES.map(p => p.id)): the full library on the
\* empty board.
InitFull == Called(createEmptyBoard, AllIds, "solve", 2)

NextFull == SolveCall \/ SolveEnter \/ SolveTry \/ SolveReturn

SpecFull == InitFull /\ [][NextFull]_vars
----------------------------------------------------------------------------
(* Claims.                                                                 *)

Grid == (0..COLS-1) \X (0..ROWS-1)

\* The cells a solution entry occupies
EntryCells(e) == ShapeCells(e.shape, e.col, e.row)

\* C1: for the full 12-piece library on the empty 5x11 board, solve returns
\* a non-null placement list in which every piece id appears exactly once
\* and whose shapes, translated by (col, row), lie inside the grid, are
\* pairwise disjoint and together cover each of the 55 cells.
C1_SolveCoversBoard ==
  pc = "done" =>
    /\ ~result.isNull
    /\ LET v == result.value
       IN /\ Len(v) = Len(PIECES)
          /\ \A p \in PieceIds : Cardinality({n \in 1..Len(v) : v[n].pieceId = p}) = 1
          /\ \A n \in 1..Len(v) : EntryCells(v[n]) \subseteq Grid
          /\ \A n, m \in 1..Len(v) : n # m => EntryCells(v[n]) \cap EntryCells(v[m]) = {}
          /\ UNION {EntryCells(v[n]) : n \in 1..Len(v)} = Grid
          /\ Cardinality(Grid) = 55

C1_Witness == pc = "done" /\ ~result.isNull /\ Len(result.value) = 12

\* C5: countSolutions never returns more than maxCount, and counter.count
\* never exceeds it during the search.
C5_CountCapped ==
  mode = "count" => /\ counter <= maxCount
                    /\ pc = "done" => result.count <= maxCount

\* The cap of 2 is returned where more than two completions exist.
C5_Witness ==
  /\ pc = "done" /\ mode = "count" /\ maxCount = 2 /\ result.count = 2
  /\ NumCovers(boardAtCall, idsAtCall) > 2

\* C6: countSolutions returns min(N, maxCount), N being the number of ways
\* to fill the empty cells of the board with placements of distinct pieces
\* of the available set.
C6_CountExact ==
  (pc = "done" /\ mode = "count") =>
    result.count = Min(NumCovers(boardAtCall, idsAtCall), maxCount)

C6_Witness ==
  /\ pc = "done" /\ mode = "count" /\ maxCount = 2 /\ result.count = 1
  /\ Len(idsAtCall) >= 3

\* C7: solve and solveWithOrder return null exactly when the empty cells
\* cannot be partitioned into placements of distinct available pieces.
C7_NullIffNoCover ==
  (pc = "done" /\ mode \in {"solve", "ordered"}) =>
    (result.isNull <=> NumCovers(boardAtCall, idsAtCall) = 0)

C7_Witness ==
  /\ pc = "done" /\ mode = "ordered" /\ result.isNull
  /\ Len(idsAtCall) >= 2

\* C8: the caller's board and piece-id array hold, during and after solve,
\* solveWithOrder and countSolutions, the values they had before the call.
C8_ArgumentsUntouched ==
  /\ heap[callBoard] = boardAtCall
  /\ availablePieceIds = idsAtCall

\* A search has returned after writing placements on its work board.
C8_Witness ==
  /\ pc = "done" /\ mode = "solve" /\ ~result.isNull /\ Len(result.value) >= 2
  /\ heap[workBoard] # heap[callBoard]

\* The pieces left after the placement the top frame is about to make
LeftAfter(f) ==
  IF mode = "ordered" THEN WithoutIndex(f.ids, f.i) ELSE SetDelete(remaining, f.ids[f.i])

\* The top frame is about to place a piece after which some region of empty
\* cells is smaller than every piece left.
AboutToLeaveDeadRegion ==
  /\ pc = "run" /\ Top.st = "loop" /\ Top.i <= Len(Top.ids)
  /\ LeftAfter(Top) # <<>>
  /\ LET p == PlacementOf(Top)
     IN DeadRegion(placePiece(heap[workBoard], p.pieceId, p.shape, p.col, p.row),
                   LeftAfter(Top))

\* C10: a placement after which some 4-connected region of empty cells has
\* fewer cells than the smallest piece left unplaced is undone in the same
\* step: no frame is pushed, nothing is recorded in the solution and the
\* board is as before the placement.
C10_IslandPruning ==
  [][AboutToLeaveDeadRegion =>
       /\ Len(stack') = Len(stack)
       /\ solution' = solution
       /\ heap'[workBoard] = heap[workBoard]]_vars

C10_Witness == AboutToLeaveDeadRegion /\ mode = "solve"

----------------------------------------------------------------------------
(* challenges.js: the seeded generator and the shuffles drawn from it.     *)
(* The generator's state s is a 32-bit word kept as two 16-bit halves so   *)
(* that s * 1664525 + 1013904223 is computed without loss.                 *)

Half == 65536

\* Mutant of SOLUTION_SEEDS: the first seed is listed twice.
SOLUTION_SEEDS_Twice == <<42, 42, 7919, 31337, 86753, 104729, 271828, 314159, 577215, 161803>>

SOLUTION_SEEDS == <<42, 7919, 31337, 86753, 104729, 271828, 314159, 577215, 161803, 248163>>

\* let s = seed: a generator that has forgotten its seed and carries on
\* from where the caller's last generator stopped
seededRandomStale(seed) == drv.rng

\* let s = seed
seededRandom(seed) == [hi |-> (seed \div Half) % Half, lo |-> seed % Half]

\* s = (s * 1664525 + 1013904223) & 0xFFFFFFFF, with
\* 1664525 = 25 * 2^16 + 26125 and 1013904223 = 15470 * 2^16 + 62303
rngStep(s) ==
  LET p   == s.lo * 26125
      low == (p % Half) + 62303
      mid == (p \div Half) + ((s.hi * 26125) % Half) + ((s.lo * 25) % Half)
             + 15470 + (low \div Half)
  IN [hi |-> mid % Half, lo |-> low % Half]

\* Math.floor(((s >>> 0) / 0xFFFFFFFF) * n) for 1 <= n <= 12: with
\* s * n = q * 2^32 + r this is q, or q + 1 when q + r >= 2^32 - 1.
randomIndex(s, n) ==
  LET t   == s.hi * n + ((s.lo * n) \div Half)
      q   == t \div Half
      rhi == t % Half
      rlo == (s.lo * n) % Half
  IN q + (IF rhi = Half - 1 /\ rlo + q >= Half - 1 THEN 1 ELSE 0)

UNDEFINED == "undefined"

\* result[j], 1-based; reading past the end gives undefined
ArrGet(arr, j) == IF j \in 1..Len(arr) THEN arr[j] ELSE UNDEFINED

\* result[j] = v, 1-based; writing at length grows the array
ArrSet(arr, j, v) == IF j \in 1..Len(arr) THEN [arr EXCEPT ![j] = v] ELSE Append(arr, v)

\* [result[i], result[j]] = [result[j], result[i]]
Swap(arr, i, j) == ArrSet(ArrSet(arr, i, ArrGet(arr, j)), j, ArrGet(arr, i))

\* for (let i = result.length - 1; i > 0; i--) { j = floor(rng() * (i + 1)); swap }
\* n is i + 1; the value is the shuffled array and the generator's state.
RECURSIVE shuffleLoop(_, _, _)
shuffleLoop(arr, s, n) ==
  IF n < 2 THEN [result |-> arr, rng |-> s]
  ELSE LET s1 == rngStep(s)
       IN shuffleLoop(Swap(arr, n, randomIndex(s1, n) + 1), s1, n - 1)

shuffleWithRng(arr, rng) == shuffleLoop(arr, rng, Len(arr))

shuffleWithSeed(arr, seed) == shuffleWithRng(arr, seededRandom(seed))

----------------------------------------------------------------------------
(* A caller that runs solveWithOrder on a seeded shuffle of the library,   *)
(* as generateSolutionsSync and the worker's solveMultiple do for each     *)
(* seed, runs it again with the same seed, and may make another search     *)
(* call in between.                                                        *)

\* The number of entries of SOLUTION_SEEDS the caller draws seeds from
MaxSeeds == 2

\* A caller calls a search function: the callee's state at entry.
Calls(b, ids, m, cap) ==
  /\ heap' = <<b>>
  /\ callBoard' = 1
  /\ workBoard' = 1
  /\ boardAtCall' = b
  /\ availablePieceIds' = ids
  /\ idsAtCall' = ids
  /\ mode' = m
  /\ maxCount' = cap
  /\ remaining' = <<>>
  /\ solution' = <<>>
  /\ counter' = 0
  /\ stack' = <<>>
  /\ pc' = "call"
  /\ result' = NoResult
  /\ UNCHANGED ui

\* No search function has been called yet.
Idle ==
  /\ heap = <<createEmptyBoard>>
  /\ callBoard = 1
  /\ workBoard = 1
  /\ boardAtCall = createEmptyBoard
  /\ availablePieceIds = <<>>
  /\ idsAtCall = <<>>
  /\ mode = "ordered"
  /\ maxCount = 2
  /\ remaining = <<>>
  /\ solution = <<>>
  /\ counter = 0
  /\ stack = <<>>
  /\ pc = "idle"
  /\ result = NoResult
  /\ ui = NoPage

InitDet ==
  /\ Idle
  /\ \E n \in 1..MaxSeeds :
       drv = [phase |-> "start", seed |-> SOLUTION_SEEDS[n],
              rng |-> [hi |-> 0, lo |-> 42], first |-> NoResult]

\* const board = Array.from(...); const orderedIds = shuffleWithSeed(allIds,
\* seed); const solution = solveWithOrder(board, orderedIds)
DetRun ==
  /\ \/ pc = "idle" /\ drv.phase = "start"
     \/ pc = "done" /\ drv.phase = "other"
     \/ pc = "idle" /\ drv.phase = "kept"
  /\ LET sh == shuffleWithRng(AllIds, seededRandom(drv.seed))
     IN /\ Calls(createEmptyBoard, sh.result, "ordered", 2)
        /\ drv' = [drv EXCEPT !.phase = IF drv.phase = "start" THEN "run1" ELSE "run2",
                              !.rng = sh.rng]

\* The caller keeps what the first run returned.
DetKeep ==
  /\ pc = "done"
  /\ drv.phase = "run1"
  /\ drv' = [drv EXCEPT !.phase = "kept", !.first = result]
  /\ pc' = "idle"
  /\ UNCHANGED <<heap, callBoard, workBoard, boardAtCall, availablePieceIds, idsAtCall,
                 mode, maxCount, remaining, solution, counter, stack, result, ui>>

\* Between the two runs: solveWithOrder for another seed, on the reference
\* cover with some pieces lifted off.
DetOther ==
  /\ pc = "idle"
  /\ drv.phase = "kept"
  /\ \E n \in 1..MaxSeeds : \E lifted \in SUBSET Liftable :
       /\ Cardinality(lifted) = 2
       /\ LET sh == shuffleWithRng(PickedIds(lifted), seededRandom(SOLUTION_SEEDS[n]))
          IN /\ Calls(PlaceAll(createEmptyBoard, Picked((1..Len(ReferenceSolution)) \ lifted)),
                      sh.result, "ordered", 2)
             /\ drv' = [drv EXCEPT !.phase = "other", !.rng = sh.rng]

NextDet ==
  \/ DetRun \/ DetKeep \/ DetOther
  \/ OrderedCall \/ OrderedEnter \/ OrderedTry \/ OrderedReturn

SpecDet == InitDet /\ [][NextDet]_vars

----------------------------------------------------------------------------
(* challenges.js: the challenge list built from reference solutions.       *)

CHALLENGES_PER_DIFFICULTY == 10

DIFFICULTY_LEVELS == 5

DIFFICULTY_CONFIG ==
  << [playerPieces |-> 2,  name |-> "Starter"],
     [playerPieces |-> 4,  name |-> "Junior"],
     [playerPieces |-> 6,  name |-> "Expert"],
     [playerPieces |-> 8,  name |-> "Master"],
     [playerPieces |-> 10, name |-> "Wizard"] >>

\* A descriptor that loses the orientation
DescriptorFirst(p) ==
  [pieceId |-> p.pieceId, col |-> p.col, row |-> p.row, orientationIndex |-> 0]

\* p => ({ pieceId: p.pieceId, col: p.col, row: p.row, orientationIndex: p.orientationIndex })
Descriptor(p) ==
  [pieceId |-> p.pieceId, col |-> p.col, row |-> p.row, orientationIndex |-> p.orientationIndex]

\* difficulty * 100003 + i * 7919 + solutionIdx * 54321
selectionSeed(difficulty, i, solutionIdx) == difficulty * 100003 + i * 7919 + solutionIdx * 54321

\* A loop body that hands the last locked piece to the player as well
BuildChallengeOverlap(solutions, difficulty, i) ==
  LET config      == DIFFICULTY_CONFIG[difficulty]
      preCount    == 12 - config.playerPieces
      solutionIdx == i % Len(solutions)
      sol         == solutions[solutionIdx + 1]
      shuffled    == shuffleWithRng(sol, seededRandom(selectionSeed(difficulty, i, solutionIdx))).result
  IN [id             |-> (difficulty - 1) * CHALLENGES_PER_DIFFICULTY + i + 1,
      difficulty     |-> difficulty,
      name           |-> config.name,
      prePlaced      |-> [n \in 1..preCount |-> Descriptor(shuffled[n])],
      playerPieceIds |-> [n \in 1..(Len(shuffled) - preCount + 1) |-> shuffled[preCount - 1 + n].pieceId],
      solution       |-> [n \in 1..Len(sol) |-> Descriptor(sol[n])]]

\* The body of the inner loop of buildChallengesFromSolutions: the challenge
\* of index i (0-based) at a difficulty.
BuildChallenge(solutions, difficulty, i) ==
  LET config      == DIFFICULTY_CONFIG[difficulty]
      preCount    == 12 - config.playerPieces
      solutionIdx == i % Len(solutions)
      sol         == solutions[solutionIdx + 1]
      shuffled    == shuffleWithRng(sol, seededRandom(selectionSeed(difficulty, i, solutionIdx))).result
  IN [id             |-> (difficulty - 1) * CHALLENGES_PER_DIFFICULTY + i + 1,
      difficulty     |-> difficulty,
      name           |-> config.name,
      prePlaced      |-> [n \in 1..preCount |-> Descriptor(shuffled[n])],
      playerPieceIds |-> [n \in 1..(Len(shuffled) - preCount) |-> shuffled[preCount + n].pieceId],
      solution       |-> [n \in 1..Len(sol) |-> Descriptor(sol[n])]]

\* The two loops: difficulty 1..DIFFICULTY_LEVELS outside, i inside;
\* challengeId counts the pushes.
buildChallengesFromSolutions(solutions) ==
  [n \in 1..(DIFFICULTY_LEVELS * CHALLENGES_PER_DIFFICULTY) |->
     BuildChallenge(solutions, ((n - 1) \div CHALLENGES_PER_DIFFICULTY) + 1,
                    (n - 1) % CHALLENGES_PER_DIFFICULTY)]

\* solution.map(p => `${p.pieceId}@${p.col},${p.row}`).sort().join('|'):
\* the pieces with their origins, whatever their order and orientation index
Fingerprint(sol) == {<<sol[n].pieceId, sol[n].col, sol[n].row>> : n \in 1..Len(sol)}

\* _generateSync with generateSolutionsSync(count, seeds) inlined; count is
\* 0 or MaxSeeds here (SOLUTIONS_NEEDED in the program).
InitBuild ==
  /\ Idle
  /\ \E count \in {0, MaxSeeds} :
       drv = [phase |-> "loop", count |-> count, i |-> 0, solutions |-> <<>>, seen |-> {},
              challenges |-> <<>>, rng |-> [hi |-> 0, lo |-> 42]]

\* for (let i = 0; i < count; i++) { board = ...; orderedIds =
\* shuffleWithSeed(allIds, seeds[i]); solution = solveWithOrder(board, orderedIds)
BuildSolve ==
  /\ pc = "idle"
  /\ drv.phase = "loop"
  /\ drv.i < drv.count
  /\ LET sh == shuffleWithRng(AllIds, seededRandom(SOLUTION_SEEDS[drv.i + 1]))
     IN /\ Calls(createEmptyBoard, sh.result, "ordered", 2)
        /\ drv' = [drv EXCEPT !.phase = "solving", !.rng = sh.rng]

\* if (solution) { fp = ...; if (!seen.has(fp)) { seen.add(fp); solutions.push(solution) } }
\* and, after the fallback: if (solution) solutions.push(solution)
BuildCollect ==
  /\ pc = "done"
  /\ drv.phase \in {"solving", "fallback"}
  /\ LET fp   == Fingerprint(result.value)
         keep == /\ ~result.isNull
                 /\ drv.phase = "solving" => fp \notin drv.seen
     IN drv' = [drv EXCEPT
                  !.phase = IF drv.phase = "solving" THEN "loop" ELSE "collected",
                  !.i = IF drv.phase = "solving" THEN drv.i + 1 ELSE drv.i,
                  !.seen = IF keep /\ drv.phase = "solving" THEN drv.seen \cup {fp} ELSE drv.seen,
                  !.solutions = IF keep THEN Append(drv.solutions, result.value)
                                ELSE drv.solutions]
  /\ pc' = "idle"
  /\ UNCHANGED <<heap, callBoard, workBoard, boardAtCall, availablePieceIds, idsAtCall,
                 mode, maxCount, remaining, solution, counter, stack, result, ui>>

\* if (solutions.length === 0) { board = ...; solution = solve(board, allIds) ... }
BuildFallback ==
  /\ pc = "idle"
  /\ drv.phase = "loop"
  /\ drv.i = drv.count
  /\ drv.solutions = <<>>
  /\ Calls(createEmptyBoard, AllIds, "solve", 2)
  /\ drv' = [drv EXCEPT !.phase = "fallback"]

\* _generatedChallenges = buildChallengesFromSolutions(solutions); with no
\* solution at all, solutions[NaN] is undefined and spreading it throws.
BuildChallenges ==
  /\ pc = "idle"
  /\ \/ drv.phase = "loop" /\ drv.i = drv.count /\ drv.solutions # <<>>
     \/ drv.phase = "collected"
  /\ drv' = IF drv.solutions = <<>> THEN [drv EXCEPT !.phase = "threw"]
            ELSE [drv EXCEPT !.phase = "built",
                             !.challenges = buildChallengesFromSolutions(drv.solutions)]
  /\ UNCHANGED <<heap, callBoard, workBoard, boardAtCall, availablePieceIds, idsAtCall,
                 mode, maxCount, remaining, solution, counter, stack, pc, result, ui>>

NextBuild ==
  \/ BuildSolve \/ BuildCollect \/ BuildFallback \/ BuildChallenges
  \/ OrderedCall \/ OrderedEnter \/ OrderedTry \/ OrderedReturn
  \/ SolveCall \/ SolveEnter \/ SolveTry \/ SolveReturn

SpecBuild == InitBuild /\ [][NextBuild]_vars

\* The number of ways the player's pieces of a challenge fill the cells its
\* pre-placed pieces leave empty
ChallengeCovers(ch) == NumCovers(PlaceAll(createEmptyBoard, ch.prePlaced), ch.playerPieceIds)

\* C3: every challenge of the built list has exactly one solution: with only
\* its prePlaced pieces on the board there is exactly one way to place its
\* playerPieceIds so that the board is filled.  Stated of the challenges a
\* run over the first MaxSeeds seeds builds as the run over all seeds does:
\* those of index i below MaxSeeds at each difficulty.
C3_EveryChallengeUnique ==
  (drv.phase = "built" /\ drv.count = MaxSeeds) =>
     \A n \in 1..Len(drv.challenges) :
        ((n - 1) % CHALLENGES_PER_DIFFICULTY < MaxSeeds) => ChallengeCovers(drv.challenges[n]) = 1

----------------------------------------------------------------------------
(* solver.js: generateChallenge.                                           *)

\* The largest difficulty generateChallenge is called with
MaxDifficulty == 2

\* The number of attempts of the loop (100 in the program)
MaxAttempts == 2

\* The placements of sol at the indices of S, in order
PickedFrom(sol, S) == SelectSeq(sol, LAMBDA p : \E n \in S : sol[n] = p)

Reverse(s) == [n \in 1..Len(s) |-> s[Len(s) + 1 - n]]

\* [...solution].sort(() => Math.random() - 0.5): an order of the solution
\* chosen by the random comparator.  The orders taken here end with
\* `lifted`, forwards or backwards, after the other placements.
Shuffles(sol, preCount) ==
  UNION {{PickedFrom(sol, (1..Len(sol)) \ lifted) \o PickedFrom(sol, lifted),
          PickedFrom(sol, (1..Len(sol)) \ lifted) \o Reverse(PickedFrom(sol, lifted))} :
         lifted \in {S \in SUBSET Liftable : Cardinality(S) = Len(sol) - preCount}}

\* count === 1, and a test that is content with any solution
AcceptsAny(count) == count >= 1

Accepts(count) == count = 1

InitGen ==
  /\ Idle
  /\ \E difficulty \in 1..MaxDifficulty :
       drv = [phase |-> "start", difficulty |-> difficulty, attempt |-> 0, solution |-> <<>>,
              prePlaced |-> <<>>, isNull |-> TRUE, ret |-> <<>>]

\* const board = createEmptyBoard(); const solution = solve(board, allIds)
GenSolve ==
  /\ pc = "idle"
  /\ drv.phase = "start"
  /\ Calls(createEmptyBoard, AllIds, "solve", 2)
  /\ drv' = [drv EXCEPT !.phase = "solve"]

\* if (!solution) return null; and the exit of the loop: return null
GenGiveUp ==
  /\ \/ pc = "done" /\ drv.phase = "solve" /\ result.isNull
     \/ pc = "idle" /\ drv.phase = "loop" /\ drv.attempt >= MaxAttempts
  /\ drv' = [drv EXCEPT !.phase = "returned", !.isNull = TRUE, !.ret = <<>>]
  /\ pc' = "idle"
  /\ UNCHANGED <<heap, callBoard, workBoard, boardAtCall, availablePieceIds, idsAtCall,
                 mode, maxCount, remaining, solution, counter, stack, result, ui>>

\* One turn of the loop up to the call: shuffled, prePlaced, remainingIds,
\* testBoard, countSolutions(testBoard, remainingIds, 2)
GenAttempt ==
  /\ \/ pc = "done" /\ drv.phase = "solve" /\ ~result.isNull
     \/ pc = "idle" /\ drv.phase = "loop" /\ drv.attempt < MaxAttempts
  /\ LET sol      == IF drv.phase = "solve" THEN result.value ELSE drv.solution
         preCount == IF 10 - drv.difficulty > 5 THEN 10 - drv.difficulty ELSE 5
     IN \E shuffled \in Shuffles(sol, preCount) :
          LET prePlaced    == SubSeq(shuffled, 1, preCount)
              rest         == SubSeq(shuffled, preCount + 1, Len(shuffled))
              remainingIds == [n \in 1..Len(rest) |-> rest[n].pieceId]
              testBoard    == WriteAll(createEmptyBoard, prePlaced)
          IN /\ Calls(testBoard, remainingIds, "count", 2)
             /\ drv' = [drv EXCEPT !.phase = "count", !.solution = sol, !.prePlaced = prePlaced]

\* const count = ...; if (count === 1) return { prePlaced: ..., solution };
\* otherwise attempt++
GenCheck ==
  /\ pc = "done"
  /\ drv.phase = "count"
  /\ drv' = IF Accepts(result.count)
            THEN [drv EXCEPT !.phase = "returned", !.isNull = FALSE,
                             !.ret = [prePlaced |-> [n \in 1..Len(drv.prePlaced) |->
                                                       Descriptor(drv.prePlaced[n])],
                                      solution  |-> drv.solution]]
            ELSE [drv EXCEPT !.phase = "loop", !.attempt = drv.attempt + 1]
  /\ pc' = "idle"
  /\ UNCHANGED <<heap, callBoard, workBoard, boardAtCall, availablePieceIds, idsAtCall,
                 mode, maxCount, remaining, solution, counter, stack, result, ui>>

NextGen ==
  \/ GenSolve \/ GenGiveUp \/ GenAttempt \/ GenCheck
  \/ SolveCall \/ SolveEnter \/ SolveTry \/ SolveReturn
  \/ CountCall \/ CountEnter \/ CountTry \/ CountReturn

SpecGen == InitGen /\ [][NextGen]_vars

\* The piece ids of a list of placements
IdsOf(placements) == {placements[n].pieceId : n \in 1..Len(placements)}

\* C2: generateChallenge never emits a descriptor whose remaining-piece
\* subproblem has no solution or more than one: when it returns a non-null
\* result, the board holding only the returned prePlaced placements has
\* exactly one filling by the pieces that are not pre-placed (so that
\* countSolutions with cap 2 gives exactly 1).
C2_EmittedIsUnique ==
  (drv.phase = "returned" /\ ~drv.isNull) =>
     /\ Min(NumCovers(PlaceAll(createEmptyBoard, drv.ret.prePlaced),
                      SelectSeq(AllIds, LAMBDA id : id \notin IdsOf(drv.ret.prePlaced))), 2) = 1

\* A descriptor is returned by the second attempt, the first having been
\* rejected.
C2_Witness ==
  /\ drv.phase = "returned"
  /\ ~drv.isNull
  /\ drv.attempt = 1
  /\ Len(drv.ret.prePlaced) = 8

----------------------------------------------------------------------------
(* game.js.  The variable ui is a record of the `state` object and of the  *)
(* module's variables; every function of game.js is an operator from the   *)
(* record before the call to the record after it.                          *)

\* state.selected = null
NoSelected == [id |-> NULL, orientationIndex |-> 0, shape |-> <<>>, anchorCol |-> 0, anchorRow |-> 0]

\* state.preview = null
NoPreview == [isNull |-> TRUE, col |-> 0, row |-> 0, valid |-> FALSE]

\* dragState = null, boardDragState = null, previewDragState = null
NoDrag == [isNull |-> TRUE, pieceId |-> NULL, isDragging |-> FALSE, clickedCol |-> 0, clickedRow |-> 0]

\* new Map()
EmptyMap == [id \in {} |-> NULL]

MapSet(map, key, value) == [k \in DOMAIN map \cup {key} |-> IF k = key THEN value ELSE map[k]]

MapDelete(map, key) == [k \in DOMAIN map \ {key} |-> map[k]]

\* game.js canPlace(shape, col, row): the same test as the solver's, on
\* state.board
fits(w, shape, col, row) ==
  \A n \in 1..Len(shape) :
    LET c == col + shape[n][1]
        r == row + shape[n][2]
    IN r >= 0 /\ r < ROWS /\ c >= 0 /\ c < COLS /\ w.state.board[r][c] = NULL

\* if (state.timerStarted) return; state.timerStarted = true; setInterval
startTimer(w) ==
  IF w.state.timerStarted THEN w
  ELSE [w EXCEPT !.state.timerStarted = TRUE, !.state.timerInterval = TRUE]

\* Mutant of stopTimer: the interval is left running.
stopTimerOff(w) == w

stopTimer(w) ==
  IF ~w.state.timerStarted THEN w ELSE [w EXCEPT !.state.timerInterval = FALSE]

resetTimer(w) == [w EXCEPT !.state.timerStarted = FALSE, !.state.timerInterval = FALSE]

\* shape.forEach(([dc, dr]) => { state.board[row + dr][col + dc] = pieceId })
\* state.board[r] is undefined for a row outside the grid and the
\* assignment throws; in a row of the grid a column outside 0..COLS-1 is
\* written beside the cells of the row.
RECURSIVE writeShape(_, _, _, _, _, _)
writeShape(w, pieceId, shape, col, row, n) ==
  IF n > Len(shape) THEN w
  ELSE LET c == col + shape[n][1]
           r == row + shape[n][2]
       IN IF r < 0 \/ r >= ROWS THEN [w EXCEPT !.threw = TRUE]
          ELSE IF c < 0 \/ c >= COLS
               THEN writeShape([w EXCEPT !.state.outside = @ \cup {<<c, r>>}],
                               pieceId, shape, col, row, n + 1)
               ELSE writeShape([w EXCEPT !.state.board[r][c] = pieceId],
                               pieceId, shape, col, row, n + 1)

doPlace(w, pieceId, shape, col, row, orientationIndex) ==
  LET w1 == writeShape(w, pieceId, shape, col, row, 1)
      w2 == [w1 EXCEPT !.state.placed = MapSet(@, pieceId,
                          [col |-> col, row |-> row, orientationIndex |-> orientationIndex,
                           shape |-> shape]),
                       !.state.tray = @ \ {pieceId}]
  IN IF w1.threw THEN w1
     ELSE IF pieceId \notin w2.state.lockedPieces /\ ~w2.state.timerStarted
          THEN startTimer(w2) ELSE w2

\* A removal that empties only the cell of the piece's origin
doRemoveOrigin(w, pieceId) ==
  IF pieceId \in w.state.lockedPieces THEN w
  ELSE [w EXCEPT !.state.board[w.state.placed[pieceId].row][w.state.placed[pieceId].col] =
                    IF @ = pieceId THEN NULL ELSE @,
                 !.state.placed = MapDelete(@, pieceId),
                 !.state.tray = @ \cup {pieceId}]

\* doRemove: false for a locked piece, otherwise the piece's cells are
\* emptied and it returns to the tray.
doRemove(w, pieceId) ==
  IF pieceId \in w.state.lockedPieces THEN w
  ELSE [w EXCEPT !.state.board = [r \in 0..ROWS-1 |-> [c \in 0..COLS-1 |->
                                    IF @[r][c] = pieceId THEN NULL ELSE @[r][c]]],
                 !.state.placed = MapDelete(@, pieceId),
                 !.state.tray = @ \cup {pieceId}]

isBoardFull(w) == \A r \in 0..ROWS-1 : \A c \in 0..COLS-1 : w.state.board[r][c] # NULL

\* updateBoardDisplay: every cell's dataset.piece follows state.board
updateBoardDisplay(w) == [w EXCEPT !.cells = w.state.board]

\* updatePiecePreview / hidePiecePreview: the floating preview is shown
\* for a piece in hand on a touch device
updatePiecePreview(w) ==
  [w EXCEPT !.previewShown = (w.state.selected.id # NULL /\ w.isTouchDevice)]

hidePiecePreview(w) == [w EXCEPT !.previewShown = FALSE]

\* clearBoardPreview: the marks are taken off the cells; state.preview = null
clearBoardPreview(w) == [w EXCEPT !.state.preview = NoPreview]

\* An origin that ignores the anchor
anchoredOriginAtHover(w, hoverCol, hoverRow) == [col |-> hoverCol, row |-> hoverRow]

anchoredOrigin(w, hoverCol, hoverRow) ==
  IF w.state.selected.id = NULL THEN [col |-> hoverCol, row |-> hoverRow]
  ELSE [col |-> hoverCol - w.state.selected.anchorCol,
        row |-> hoverRow - w.state.selected.anchorRow]

showBoardPreview(w, hoverCol, hoverRow) ==
  IF w.lastHover = <<hoverCol, hoverRow>> THEN w
  ELSE LET w1 == clearBoardPreview([w EXCEPT !.lastHover = <<hoverCol, hoverRow>>])
           o  == anchoredOrigin(w1, hoverCol, hoverRow)
       IN IF w1.state.selected.id = NULL THEN w1
          ELSE [w1 EXCEPT !.state.preview =
                  [isNull |-> FALSE, col |-> o.col, row |-> o.row,
                   valid |-> fits(w1, w1.state.selected.shape, o.col, o.row)]]

\* computeAnchor: the cell of the shape nearest the centre of its bounding
\* box, the first such in the shape's order.  Distances are compared
\* doubled: (2c - maxCol)^2 + (2r - maxRow)^2.
computeAnchor(shape) ==
  LET maxCol == SeqMax([n \in 1..Len(shape) |-> shape[n][1]])
      maxRow == SeqMax([n \in 1..Len(shape) |-> shape[n][2]])
      d(n)   == (2 * shape[n][1] - maxCol) * (2 * shape[n][1] - maxCol)
                + (2 * shape[n][2] - maxRow) * (2 * shape[n][2] - maxRow)
      best   == CHOOSE n \in 1..Len(shape) :
                  /\ \A m \in 1..Len(shape) : d(n) <= d(m)
                  /\ \A m \in 1..(n - 1) : d(m) > d(n)
  IN [anchorCol |-> shape[best][1], anchorRow |-> shape[best][2]]


\* selectPiece: the piece comes into the hand in its first orientation
selectPiece(w, pieceId) ==
  IF pieceId \notin w.state.tray \/ pieceId \in w.state.lockedPieces THEN w
  ELSE LET shape == ORIENTATIONS[pieceId][1]
           a     == computeAnchor(shape)
       IN updatePiecePreview(
            [w EXCEPT !.state.selected = [id |-> pieceId, orientationIndex |-> 0, shape |-> shape,
                                          anchorCol |-> a.anchorCol, anchorRow |-> a.anchorRow],
                      !.state.mode = "selected",
                      !.actionsShown = TRUE])

\* selectPieceWithOrientation: a piece picked up from the board keeps its
\* orientation; the anchor is the cell it was grabbed by
selectPieceWithOrientation(w, pieceId, orientationIndex, anchorCol, anchorRow) ==
  updatePiecePreview(
    [w EXCEPT !.state.selected = [id |-> pieceId, orientationIndex |-> orientationIndex,
                                  shape |-> ORIENTATIONS[pieceId][orientationIndex + 1],
                                  anchorCol |-> anchorCol, anchorRow |-> anchorRow],
              !.state.mode = "selected",
              !.actionsShown = TRUE])

deselectPiece(w) ==
  clearBoardPreview(hidePiecePreview(
    [w EXCEPT !.state.selected = NoSelected,
              !.state.preview = NoPreview,
              !.state.mode = "idle",
              !.lastHover = <<-1, -1>>,
              !.previewDragState = NoDrag,
              !.actionsShown = FALSE]))

\* orientations.findIndex(o => shapeKey(o) === key), 0-based; -1 when no
\* orientation has the key
findIndex(orientations, key) ==
  LET hits == {n \in 1..Len(orientations) : shapeKey(orientations[n]) = key}
  IN IF hits = {} THEN -1 ELSE (CHOOSE n \in hits : \A m \in hits : n <= m) - 1

\* rotateSelected: the rotated shape's entry of the orientation table, or
\* the next entry when the table does not have it; the anchor is recomputed.
\* state.preview and the hover cell are left as they are.
rotateSelected(w) ==
  IF w.state.selected.id = NULL THEN w
  ELSE LET orientations == ORIENTATIONS[w.state.selected.id]
           newIndex     == findIndex(orientations, shapeKey(rotate90CW(w.state.selected.shape)))
           index        == IF newIndex # -1 THEN newIndex
                           ELSE (w.state.selected.orientationIndex + 1) % Len(orientations)
           newShape     == orientations[index + 1]
           a            == computeAnchor(newShape)
       IN updatePiecePreview(
            [w EXCEPT !.state.selected = [@ EXCEPT !.orientationIndex = index, !.shape = newShape,
                                                   !.anchorCol = a.anchorCol,
                                                   !.anchorRow = a.anchorRow]])

\* flipSelected: the flipped shape's entry of the table; nothing changes
\* when the table does not have it
flipSelected(w) ==
  IF w.state.selected.id = NULL THEN w
  ELSE LET orientations == ORIENTATIONS[w.state.selected.id]
           newIndex     == findIndex(orientations, shapeKey(flipH(w.state.selected.shape)))
           a            == computeAnchor(orientations[newIndex + 1])
       IN updatePiecePreview(
            IF newIndex = -1 THEN w
            ELSE [w EXCEPT !.state.selected = [@ EXCEPT !.orientationIndex = newIndex,
                                                        !.shape = orientations[newIndex + 1],
                                                        !.anchorCol = a.anchorCol,
                                                        !.anchorRow = a.anchorRow]])

\* showWin: the timer is stopped and the win overlay put up
showWin(w) == [stopTimer(w) EXCEPT !.overlay = TRUE]

\* The statements every placing handler runs: doPlace(state.selected.id,
\* state.selected.shape, col, row, state.selected.orientationIndex);
\* updateBoardDisplay(); deselectPiece(); if (isBoardFull()) showWin().
\* An exception thrown by doPlace ends the handler.
placeSelected(w, col, row) ==
  LET w1 == doPlace(w, w.state.selected.id, w.state.selected.shape, col, row,
                    w.state.selected.orientationIndex)
      w2 == deselectPiece(updateBoardDisplay(w1))
  IN IF w1.threw THEN w1
     ELSE IF isBoardFull(w2) THEN showWin(w2) ELSE w2

\* A pointer position: over a cell of the board, over a piece of the tray,
\* over the floating preview's shape, or away from all of them
OnBoard(col, row) == [on |-> "board", col |-> col, row |-> row, id |-> NULL]

OnTray(pieceId) == [on |-> "tray", col |-> -1, row |-> -1, id |-> pieceId]

OnPreview == [on |-> "preview", col |-> -1, row |-> -1, id |-> NULL]

Away == [on |-> "away", col |-> -1, row |-> -1, id |-> NULL]

handleBoardPointerDown(w, col, row) ==
  LET pieceId == w.cells[row][col]
  IN IF w.state.mode # "idle" \/ pieceId = NULL \/ pieceId \in w.state.lockedPieces THEN w
     ELSE [w EXCEPT !.boardDragState = [isNull |-> FALSE, pieceId |-> pieceId,
                                        isDragging |-> FALSE,
                                        clickedCol |-> col, clickedRow |-> row]]

\* handleBoardClick; onCell: the click's target is a cell of the grid
handleBoardClick(w, onCell, hoverCol, hoverRow) ==
  IF w.suppressNextBoardClick THEN [w EXCEPT !.suppressNextBoardClick = FALSE]
  ELSE IF ~onCell THEN w
  ELSE IF w.state.mode = "selected"
       THEN LET o == anchoredOrigin(w, hoverCol, hoverRow)
            IN IF fits(w, w.state.selected.shape, o.col, o.row)
               THEN placeSelected(w, o.col, o.row)
               ELSE w
  ELSE IF w.state.mode = "idle"
       THEN LET pieceId == w.cells[hoverRow][hoverCol]
            IN IF pieceId = NULL \/ pieceId \in w.state.lockedPieces THEN w
               ELSE updateBoardDisplay(doRemove(w, pieceId))
  ELSE w

\* handleTrayClick; onPiece: the click's target is a piece of the tray
handleTrayClick(w, onPiece, pieceId) ==
  IF w.suppressNextTrayClick THEN [w EXCEPT !.suppressNextTrayClick = FALSE]
  ELSE IF ~onPiece \/ pieceId \notin w.state.tray \/ pieceId \in w.state.lockedPieces THEN w
  ELSE IF w.state.selected.id = pieceId THEN deselectPiece(w)
  ELSE selectPiece(IF w.state.selected.id # NULL THEN deselectPiece(w) ELSE w, pieceId)

handleTrayPointerDown(w, pieceId) ==
  IF pieceId \notin w.state.tray \/ pieceId \in w.state.lockedPieces THEN w
  ELSE [w EXCEPT !.dragState = [NoDrag EXCEPT !.isNull = FALSE, !.pieceId = pieceId]]


\* The end of every branch of handleDocumentPointerMove: positionGhostAt,
\* then the preview for the cell under the pointer, or none off the board
hover(w, pos) ==
  IF pos.on = "board" THEN showBoardPreview(w, pos.col, pos.row)
  ELSE clearBoardPreview([w EXCEPT !.lastHover = <<-1, -1>>])

\* Board drag: initiation, once the pointer is more than DRAG_THRESHOLD
\* from where it went down
boardDragStart(w, beyond) ==
  IF w.boardDragState.isNull \/ w.boardDragState.isDragging \/ ~beyond THEN w
  ELSE LET pieceId == w.boardDragState.pieceId
           w1      == [w EXCEPT !.boardDragState.isDragging = TRUE]
       IN IF pieceId \in DOMAIN w.state.placed
          THEN LET placement == w.state.placed[pieceId]
                   w2 == selectPieceWithOrientation(
                           updateBoardDisplay(doRemove(w1, pieceId)),
                           pieceId, placement.orientationIndex,
                           w.boardDragState.clickedCol - placement.col,
                           w.boardDragState.clickedRow - placement.row)
               IN [w2 EXCEPT !.state.mode = "dragging"]
          ELSE [w1 EXCEPT !.boardDragState = NoDrag]

\* Tray drag: initiation
trayDragStart(w, beyond) ==
  IF w.dragState.isNull \/ w.dragState.isDragging \/ ~beyond THEN w
  ELSE LET w1 == [w EXCEPT !.dragState.isDragging = TRUE]
           w2 == IF w1.state.selected.id # NULL THEN deselectPiece(w1) ELSE w1
       IN [selectPiece(w2, w.dragState.pieceId) EXCEPT !.state.mode = "dragging"]

\* Preview drag: initiation
previewDragStart(w, beyond) ==
  IF w.previewDragState.isNull \/ w.previewDragState.isDragging \/ ~beyond THEN w
  ELSE hidePiecePreview([w EXCEPT !.previewDragState.isDragging = TRUE,
                                  !.state.mode = "dragging"])

handleDocumentPointerMove(w, pos, beyond) ==
  LET w1 == boardDragStart(w, beyond)
      w2 == trayDragStart(w1, beyond)
      w3 == previewDragStart(w2, beyond)
  IN IF ~w1.boardDragState.isNull /\ w1.boardDragState.isDragging THEN hover(w1, pos)
     ELSE IF ~w2.dragState.isNull /\ w2.dragState.isDragging THEN hover(w2, pos)
     ELSE IF ~w3.previewDragState.isNull /\ w3.previewDragState.isDragging THEN hover(w3, pos)
     ELSE IF w3.state.mode = "selected" THEN hover(w3, pos)
     ELSE w3

handleDocumentPointerUp(w) ==
  IF ~w.boardDragState.isNull
  THEN IF ~w.boardDragState.isDragging THEN [w EXCEPT !.boardDragState = NoDrag]
       ELSE LET w1 == [w EXCEPT !.suppressNextBoardClick = TRUE]
                w2 == IF ~w1.state.preview.isNull /\ w1.state.preview.valid
                      THEN placeSelected(w1, w1.state.preview.col, w1.state.preview.row)
                      ELSE deselectPiece(w1)
            IN IF w2.threw THEN w2 ELSE [w2 EXCEPT !.boardDragState = NoDrag]
  ELSE IF ~w.previewDragState.isNull
  THEN IF ~w.previewDragState.isDragging THEN [w EXCEPT !.previewDragState = NoDrag]
       ELSE LET w1 == clearBoardPreview([w EXCEPT !.previewDragOccurred = TRUE,
                                                  !.suppressNextBoardClick = TRUE])
                w2 == IF ~w1.state.preview.isNull /\ w1.state.preview.valid
                         /\ w1.state.selected.id # NULL
                      THEN placeSelected(w1, w1.state.preview.col, w1.state.preview.row)
                      ELSE updatePiecePreview([w1 EXCEPT !.state.mode = "selected",
                                                         !.actionsShown = TRUE])
            IN IF w2.threw THEN w2 ELSE [w2 EXCEPT !.previewDragState = NoDrag]
  ELSE IF w.dragState.isNull THEN w
  ELSE IF ~w.dragState.isDragging THEN [w EXCEPT !.dragState = NoDrag]
       ELSE LET w1 == [w EXCEPT !.suppressNextTrayClick = TRUE]
                w2 == IF ~w1.state.preview.isNull /\ w1.state.preview.valid
                      THEN placeSelected(w1, w1.state.preview.col, w1.state.preview.row)
                      ELSE deselectPiece(w1)
            IN IF w2.threw THEN w2 ELSE [w2 EXCEPT !.dragState = NoDrag]

handleKeyDown(w, key) ==
  IF w.state.selected.id = NULL THEN w
  ELSE IF key = "r" THEN rotateSelected(w)
  ELSE IF key = "f" THEN flipSelected(w)
  ELSE IF key = "escape"
       THEN [deselectPiece(w) EXCEPT !.dragState = NoDrag, !.boardDragState = NoDrag]
  ELSE w

handleContextMenu(w) == IF w.state.selected.id # NULL THEN flipSelected(w) ELSE w

\* The click listener of the preview's shape
previewShapeClick(w) ==
  IF w.previewDragOccurred THEN [w EXCEPT !.previewDragOccurred = FALSE]
  ELSE rotateSelected(w)

\* The pointerdown listener of the preview's shape
previewShapePointerDown(w) ==
  IF w.state.selected.id = NULL THEN w
  ELSE [w EXCEPT !.previewDragState = [NoDrag EXCEPT !.isNull = FALSE]]

\* state.currentChallenge: null
NoChallenge == [id |-> 0, prePlaced |-> <<>>, playerPieceIds |-> <<>>]

\* The challenge getChallenges() has under id 1 once generation is done:
\* difficulty 1, i = 0, cut from the solution of SOLUTION_SEEDS[0] with
\* selectionSeed 100003 (prePlaced entries as pieceId, orientationIndex,
\* col, row).
Challenge1 ==
  [id |-> 1,
   prePlaced |-> << [pieceId |-> "A", orientationIndex |-> 7, col |-> 3, row |-> 2],
                    [pieceId |-> "L", orientationIndex |-> 1, col |-> 10, row |-> 0],
                    [pieceId |-> "H", orientationIndex |-> 4, col |-> 2, row |-> 0],
                    [pieceId |-> "F", orientationIndex |-> 3, col |-> 0, row |-> 1],
                    [pieceId |-> "I", orientationIndex |-> 1, col |-> 1, row |-> 2],
                    [pieceId |-> "B", orientationIndex |-> 0, col |-> 6, row |-> 0],
                    [pieceId |-> "C", orientationIndex |-> 3, col |-> 4, row |-> 1],
                    [pieceId |-> "E", orientationIndex |-> 0, col |-> 0, row |-> 0],
                    [pieceId |-> "G", orientationIndex |-> 7, col |-> 8, row |-> 0],
                    [pieceId |-> "J", orientationIndex |-> 0, col |-> 6, row |-> 1] >>,
   playerPieceIds |-> <<"K", "D">>]

\* getChallenge(id): challenges.find(c => c.id === id) || null
getChallenge(id) == IF id = Challenge1.id THEN Challenge1 ELSE NoChallenge

\* loadChallenge: for (const pp of challenge.prePlaced) { ...;
\* state.lockedPieces.add(pp.pieceId); doPlace(...) }
RECURSIVE placeLocked(_, _)
placeLocked(w, prePlaced) ==
  IF prePlaced = <<>> \/ w.threw THEN w
  ELSE LET pp == Head(prePlaced)
           orientations == ORIENTATIONS[pp.pieceId]
           shape == IF pp.orientationIndex + 1 \in 1..Len(orientations)
                    THEN orientations[pp.orientationIndex + 1] ELSE orientations[1]
       IN placeLocked(doPlace([w EXCEPT !.state.lockedPieces = @ \cup {pp.pieceId}],
                              pp.pieceId, shape, pp.col, pp.row, pp.orientationIndex),
                      Tail(prePlaced))

loadChallenge(w, challengeId) ==
  LET challenge == getChallenge(challengeId)
  IN IF challenge = NoChallenge THEN w
     ELSE LET w1 == resetTimer([w EXCEPT !.state.currentChallengeId = challengeId,
                                         !.state.currentChallenge = challenge,
                                         !.state.board = createEmptyBoard,
                                         !.state.outside = {},
                                         !.state.placed = EmptyMap,
                                         !.state.tray = PieceIds,
                                         !.state.lockedPieces = {},
                                         !.state.selected = NoSelected,
                                         !.state.preview = NoPreview,
                                         !.state.mode = "idle",
                                         !.dragState = NoDrag,
                                         !.boardDragState = NoDrag,
                                         !.previewDragState = NoDrag])
              w2 == placeLocked(w1, challenge.prePlaced)
          IN IF w2.threw THEN w2 ELSE updateBoardDisplay(w2)

\* resetGame: in challenge mode the current challenge is loaded again,
\* in free play the board is emptied
resetGame(w) ==
  IF w.state.gameMode = "challenge" /\ w.state.currentChallenge # NoChallenge
  THEN loadChallenge(w, w.state.currentChallengeId)
  ELSE
  resetTimer([w EXCEPT !.state.board = createEmptyBoard,
                       !.state.outside = {},
                       !.state.placed = EmptyMap,
                       !.state.tray = PieceIds,
                       !.state.lockedPieces = {},
                       !.state.selected = NoSelected,
                       !.state.preview = NoPreview,
                       !.state.mode = "idle",
                       !.dragState = NoDrag,
                       !.boardDragState = NoDrag,
                       !.previewDragState = NoDrag,
                       !.cells = createEmptyBoard,
                       !.overlay = FALSE])

----------------------------------------------------------------------------
(* The page in free play: the events a browser delivers to game.js.  A     *)
(* pointer goes down where it is, moves, and goes up; a click follows a    *)
(* pointer-up on the listener's element the pointer went down on; keys     *)
(* are pressed at any moment.                                              *)

\* The tray pieces the pointer goes to
HandPieces == {"K", "L"}

\* The cells of the board the pointer goes to: the lower left corner
PointerCells == {<<c, r>> : c \in 0..1, r \in 3..4}

\* In challenge 1: the tray pieces D (the player's) and L (locked), the
\* cell (8,4) over which D's centre lies at its place in the solution, and
\* the cell (7,1) of the locked piece B
ChallengeHandPieces == {"D", "L"}

ChallengeCells == {<<8, 4>>, <<7, 1>>}

Positions ==
  {OnBoard(cell[1], cell[2]) :
     cell \in IF ui.state.gameMode = "challenge" THEN ChallengeCells ELSE PointerCells}
  \cup {OnTray(id) : id \in IF ui.state.gameMode = "challenge" THEN ChallengeHandPieces
                             ELSE HandPieces}
  \cup {OnPreview, Away}

NoClick == [on |-> "none", hit |-> FALSE, col |-> -1, row |-> -1, id |-> NULL]

\* const state = { ... } and the module's variables after init()
InitialUi(touch) ==
  [state |-> [board |-> createEmptyBoard, outside |-> {}, placed |-> EmptyMap,
              tray |-> PieceIds, selected |-> NoSelected, preview |-> NoPreview,
              mode |-> "idle", gameMode |-> "free", currentChallengeId |-> 1,
              currentChallenge |-> NoChallenge, lockedPieces |-> {},
              timerStarted |-> FALSE, timerInterval |-> FALSE],
   dragState |-> NoDrag, boardDragState |-> NoDrag, previewDragState |-> NoDrag,
   previewDragOccurred |-> FALSE,
   suppressNextBoardClick |-> FALSE, suppressNextTrayClick |-> FALSE,
   lastHover |-> <<-1, -1>>,
   isTouchDevice |-> touch,
   cells |-> createEmptyBoard, previewShown |-> FALSE, actionsShown |-> FALSE,
   overlay |-> FALSE,
   threw |-> FALSE,
   ptr |-> [down |-> FALSE, downAt |-> Away, at |-> Away, click |-> NoClick]]

\* A handler starts.  The runs followed end at the first exception no
\* handler catches: no event is delivered after it.
Begin(w) == w

Running == ~ui.threw /\ ui.ptr.click.on = "none"

searchVars == <<heap, callBoard, workBoard, boardAtCall, availablePieceIds, idsAtCall,
                mode, maxCount, remaining, solution, counter, stack, pc, result, drv>>

InitPage ==
  /\ heap = <<createEmptyBoard>>
  /\ callBoard = 1
  /\ workBoard = 1
  /\ boardAtCall = createEmptyBoard
  /\ availablePieceIds = <<>>
  /\ idsAtCall = <<>>
  /\ mode = "solve"
  /\ maxCount = 2
  /\ remaining = <<>>
  /\ solution = <<>>
  /\ counter = 0
  /\ stack = <<>>
  /\ pc = "idle"
  /\ result = NoResult
  /\ drv = [phase |-> "page"]
  /\ \E touch \in BOOLEAN : ui = InitialUi(touch)

\* pointermove: a mouse moves whether or not its button is down, a finger
\* only while it touches
PointerMove ==
  \E pos \in Positions, beyond \in BOOLEAN :
    /\ Running
    /\ ui.isTouchDevice => ui.ptr.down
    /\ ~ui.ptr.down => ~beyond
    /\ (ui.ptr.down /\ pos # ui.ptr.downAt) => beyond
    /\ pos = OnPreview => ui.isTouchDevice
    /\ ui' = [handleDocumentPointerMove(Begin(ui), pos, beyond) EXCEPT !.ptr.at = pos]
    /\ UNCHANGED searchVars

\* pointerdown, delivered to the listener of the element under the pointer
PointerDown ==
  \E pos \in Positions :
    /\ Running
    /\ ~ui.ptr.down
    /\ ~ui.isTouchDevice => pos = ui.ptr.at
    /\ LET w == Begin(ui)
           w1 == IF pos.on = "board" THEN handleBoardPointerDown(w, pos.col, pos.row)
                 ELSE IF pos.on = "tray" THEN handleTrayPointerDown(w, pos.id)
                 ELSE IF pos.on = "preview" /\ w.previewShown THEN previewShapePointerDown(w)
                 ELSE w
       IN ui' = [w1 EXCEPT !.ptr = [down |-> TRUE, downAt |-> pos, at |-> pos, click |-> NoClick]]
    /\ UNCHANGED searchVars

\* The click that follows a pointer-up: on the board when the pointer went
\* down and up over the board (on a cell when it is the same cell), on the
\* tray likewise, on the preview's shape when it is shown.
ClickAfter(w, downAt, at) ==
  IF downAt.on = "board" /\ at.on = "board"
  THEN [on |-> "board", hit |-> downAt = at, col |-> at.col, row |-> at.row, id |-> NULL]
  ELSE IF downAt.on = "tray" /\ at.on = "tray"
  THEN [on |-> "tray", hit |-> downAt = at, col |-> -1, row |-> -1, id |-> at.id]
  ELSE IF downAt.on = "preview" /\ at.on = "preview" /\ w.previewShown
  THEN [NoClick EXCEPT !.on = "preview", !.hit = TRUE]
  ELSE NoClick

\* pointerup
PointerUp ==
  /\ Running
  /\ ui.ptr.down
  /\ LET w1 == handleDocumentPointerUp(Begin(ui))
     IN ui' = [w1 EXCEPT !.ptr.down = FALSE,
                         !.ptr.downAt = Away,
                         !.ptr.at = IF ui.isTouchDevice THEN Away ELSE @,
                         !.ptr.click = ClickAfter(w1, ui.ptr.downAt, ui.ptr.at)]
  /\ UNCHANGED searchVars

\* click
Click ==
  /\ ~ui.threw
  /\ ui.ptr.click.on # "none"
  /\ LET w == Begin(ui)
         ck == ui.ptr.click
         w1 == IF ck.on = "board" THEN handleBoardClick(w, ck.hit, ck.col, ck.row)
               ELSE IF ck.on = "tray" THEN handleTrayClick(w, ck.hit, ck.id)
               ELSE previewShapeClick(w)
     IN ui' = [w1 EXCEPT !.ptr.click = NoClick]
  /\ UNCHANGED searchVars

\* keydown: R, F or Escape
KeyDown ==
  \E key \in {"r", "f", "escape"} :
    /\ Running
    /\ ui' = handleKeyDown(Begin(ui), key)
    /\ UNCHANGED searchVars

\* contextmenu (a right click)
ContextMenu ==
  /\ Running
  /\ ui' = handleContextMenu(Begin(ui))
  /\ UNCHANGED searchVars

\* A click on one of the buttons: Rotate and Flip (in the side bar and in
\* the preview), Cancel (in the action bar, when shown) and Reset
ButtonClick ==
  \E button \in {"rotate", "flip", "cancel", "reset"} :
    /\ Running
    /\ ~ui.ptr.down
    /\ button = "cancel" => ui.actionsShown
    /\ ui' = IF button = "rotate" THEN rotateSelected(Begin(ui))
             ELSE IF button = "flip" THEN flipSelected(Begin(ui))
             ELSE IF button = "cancel" THEN deselectPiece(Begin(ui))
             ELSE resetGame(Begin(ui))
    /\ UNCHANGED searchVars

NextPage ==
  \/ PointerMove \/ PointerDown \/ PointerUp \/ Click
  \/ KeyDown \/ ContextMenu \/ ButtonClick

SpecPage == InitPage /\ [][NextPage]_vars

\* A step in which doPlace is called: a piece enters state.placed, or the
\* call throws
Placed(id) == id \notin DOMAIN ui.state.placed /\ id \in DOMAIN ui'.state.placed

\* C4: every placement the page commits is validated: at each call of
\* doPlace made by a gesture (board click, tray-drag drop, board-drag drop,
\* preview-drag drop), the shape and origin passed to doPlace fit the board
\* as it is at that moment, whatever keys were pressed between the pointer
\* events; no call writes outside the grid (and throws) or over a cell of
\* another piece.
C4_CommitsAreValidated ==
  [][/\ ui'.threw = ui.threw
     /\ \A id \in PieceIds :
          Placed(id) => fits(ui, ui'.state.placed[id].shape, ui'.state.placed[id].col,
                             ui'.state.placed[id].row)]_vars

----------------------------------------------------------------------------
(* The counter's short circuit.                                            *)

\* The cells of a board that hold a piece
Occupied(board) == {<<c, r>> \in (0..COLS-1) \X (0..ROWS-1) : board[r][c] # NULL}

\* C11: once counter.count has reached maxCount, no active _countSolve
\* frame places a piece any more: every later step of the count leaves the
\* counter as it is, opens no frame and fills no cell; a frame only marks
\* its return, or returns while its caller takes its own placement off.
C11_ShortCircuit ==
  [][(pc = "run" /\ mode = "count" /\ counter >= maxCount) =>
       /\ counter' = counter
       /\ Len(stack') <= Len(stack)
       /\ Occupied(heap'[workBoard']) \subseteq Occupied(heap[workBoard])
       /\ (Len(stack') = Len(stack) => Top.st = "enter" /\ stack'[Len(stack')].st = "ret")
       /\ (1 < Len(stack') /\ Len(stack') < Len(stack) =>
             /\ stack'[Len(stack')].st = "ret"
             /\ Occupied(heap'[workBoard']) # Occupied(heap[workBoard]))]_vars

\* The cap (1 or more) has been reached three frames deep or deeper, and
\* the frames are unwinding.
C11_Witness ==
  /\ pc = "run" /\ mode = "count"
  /\ maxCount >= 1 /\ counter = maxCount
  /\ Len(stack) >= 3
  /\ Top.st = "ret"

----------------------------------------------------------------------------
(* The placement engine on its own: one pass of the searches' innermost    *)
(* loop body (canPlace, placePiece, removePiece) on a board of the search, *)
(* and game.js's canPlace on the same board.                               *)

\* The searches' loop position: a piece left to place, one of its
\* orientations, and the cell of the shape laid on the first empty cell
\* (placeCol = targetCol - dc, placeRow = targetRow - dr).
InitBoard ==
  \E lifted \in SUBSET Liftable :
    /\ lifted # {}
    /\ Cardinality(lifted) <= MaxPlayer
    /\ LET b == PlaceAll(createEmptyBoard, Picked((1..Len(ReferenceSolution)) \ lifted))
           target == findFirstEmpty(b)
           ids == PickedIds(lifted)
       IN /\ heap = <<b>> /\ callBoard = 1 /\ workBoard = 1 /\ boardAtCall = b
          /\ availablePieceIds = ids /\ idsAtCall = ids
          /\ mode = "solve" /\ maxCount = 2
          /\ remaining = NewSet(ids) /\ solution = <<>> /\ counter = 0
          /\ stack = <<>> /\ pc = "idle" /\ result = NoResult
          /\ ui = NoPage
          /\ \E i \in 1..Len(ids) :
             \E oi \in 1..Len(ORIENTATIONS[ids[i]]) :
             \E k \in 1..Len(ORIENTATIONS[ids[i]][oi]) :
               LET shape == ORIENTATIONS[ids[i]][oi]
               IN drv = [phase |-> "loop", pieceId |-> ids[i], shape |-> shape,
                         col |-> target.col - shape[k][1], row |-> target.row - shape[k][2],
                         fits |-> FALSE, pageFits |-> FALSE]

boardVars == <<callBoard, workBoard, boardAtCall, availablePieceIds, idsAtCall, mode,
               maxCount, remaining, solution, counter, stack, pc, result, ui>>

\* if (canPlace(board, shape, placeCol, placeRow)); game.js's canPlace
\* answers for the same board held in state.board
BoardTest ==
  /\ pc = "idle" /\ drv.phase = "loop"
  /\ drv' = [drv EXCEPT !.phase = "tested",
                        !.fits = canPlace(heap[workBoard], drv.shape, drv.col, drv.row),
                        !.pageFits = fits([state |-> [board |-> heap[workBoard]]],
                                          drv.shape, drv.col, drv.row)]
  /\ UNCHANGED <<heap, boardVars>>

\* placePiece(board, pieceId, shape, placeCol, placeRow), inside the if
BoardPlace ==
  /\ pc = "idle" /\ drv.phase = "tested" /\ drv.fits
  /\ heap' = [heap EXCEPT ![workBoard] =
                placePiece(heap[workBoard], drv.pieceId, drv.shape, drv.col, drv.row)]
  /\ drv' = [drv EXCEPT !.phase = "placed"]
  /\ UNCHANGED boardVars

\* removePiece(board, pieceId, shape, placeCol, placeRow), the undo
BoardRemove ==
  /\ pc = "idle" /\ drv.phase = "placed"
  /\ heap' = [heap EXCEPT ![workBoard] =
                removePiece(heap[workBoard], drv.pieceId, drv.shape, drv.col, drv.row)]
  /\ drv' = [drv EXCEPT !.phase = "removed"]
  /\ UNCHANGED boardVars

NextBoard == BoardTest \/ BoardPlace \/ BoardRemove

SpecBoard == InitBoard /\ [][NextBoard]_vars

\* C12: canPlace (solver.js and game.js) answers false when a cell of the
\* shape moved by (col, row) lies outside the 11 x 5 grid or on an occupied
\* cell, true otherwise, and leaves the board as it was.
C12_CanPlace ==
  drv.phase = "tested" =>
    LET cells == ShapeCells(drv.shape, drv.col, drv.row)
        free == cells \subseteq Grid /\ cells \cap Occupied(boardAtCall) = {}
    IN /\ drv.fits = free
       /\ drv.pageFits = free
       /\ heap[callBoard] = boardAtCall

\* canPlace has answered false for a shape that lies inside the grid, on
\* an occupied cell.
C12_Witness ==
  /\ drv.phase = "tested" /\ ~drv.fits /\ ~drv.pageFits
  /\ ShapeCells(drv.shape, drv.col, drv.row) \subseteq Grid

\* C13: placePiece followed by removePiece with the same pieceId, shape,
\* col and row leaves the board as it was before, cell for cell (placePiece
\* is called where canPlace has answered true, as everywhere in solver.js).
C13_PlaceRemoveRestores ==
  /\ drv.phase = "placed" =>
       Occupied(heap[workBoard]) = Occupied(boardAtCall) \cup ShapeCells(drv.shape, drv.col, drv.row)
  /\ drv.phase = "removed" => heap[workBoard] = boardAtCall

\* A piece has been placed away from the origin and removed again.
C13_Witness ==
  drv.phase = "removed" /\ drv.col > 0 /\ drv.row > 0

----------------------------------------------------------------------------
(* pieces.js on its own: the module builds ORIENTATIONS when it is loaded; *)
(* the game then takes an orientation of a piece (selectPiece) and turns   *)
(* and mirrors it (rotateSelected, flipSelected).                          *)

\* The most transformations applied to one shape
MaxOps == 4

searchState == <<heap, callBoard, workBoard, boardAtCall, availablePieceIds, idsAtCall,
                 mode, maxCount, remaining, solution, counter, stack, pc, result>>

InitPieces ==
  /\ Idle
  /\ drv = [phase |-> "load", table |-> [p \in PieceIds |-> <<>>],
            pieceId |-> "A", start |-> <<>>, shape |-> <<>>, ops |-> <<>>]

\* export const ORIENTATIONS = Object.freeze(Object.fromEntries(PIECES.map(
\*   p => [p.id, Object.freeze(getAllOrientations(p.shape))])))
PiecesLoad ==
  /\ drv.phase = "load"
  /\ drv' = [drv EXCEPT !.phase = "table",
                        !.table = [p \in PieceIds |-> getAllOrientations(PIECE_MAP[p].shape)]]
  /\ UNCHANGED <<searchState, ui>>

\* shape: ORIENTATIONS[pieceId][orientationIndex]
PiecesPick ==
  /\ drv.phase = "table"
  /\ \E p \in PieceIds : \E oi \in 1..Len(drv.table[p]) :
       drv' = [drv EXCEPT !.phase = "shape", !.pieceId = p,
                          !.start = drv.table[p][oi], !.shape = drv.table[p][oi]]
  /\ UNCHANGED <<searchState, ui>>

\* const rotated = rotate90CW(state.selected.shape)
PiecesRotate ==
  /\ drv.phase = "shape" /\ Len(drv.ops) < MaxOps
  /\ drv' = [drv EXCEPT !.shape = rotate90CW(drv.shape), !.ops = Append(drv.ops, "rotate")]
  /\ UNCHANGED <<searchState, ui>>

\* const flipped = flipH(state.selected.shape)
PiecesFlip ==
  /\ drv.phase = "shape" /\ Len(drv.ops) < MaxOps
  /\ drv' = [drv EXCEPT !.shape = flipH(drv.shape), !.ops = Append(drv.ops, "flip")]
  /\ UNCHANGED <<searchState, ui>>

NextPieces == PiecesLoad \/ PiecesPick \/ PiecesRotate \/ PiecesFlip

SpecPieces == InitPieces /\ [][NextPieces]_vars

\* The cells of a shape, as a set
CellSet(shape) == {shape[n] : n \in 1..Len(shape)}

\* A shape is normalized: least column 0, least row 0, and the cells in
\* reading order (row ascending, then column ascending), none twice.
IsNormalized(shape) ==
  /\ \A n \in 1..Len(shape) : shape[n][1] >= 0 /\ shape[n][2] >= 0
  /\ \E n \in 1..Len(shape) : shape[n][1] = 0
  /\ \E n \in 1..Len(shape) : shape[n][2] = 0
  /\ \A n \in 1..Len(shape) : \A m \in 1..Len(shape) :
       n < m => shape[n][2] * COLS + shape[n][1] < shape[m][2] * COLS + shape[m][1]

\* C14: for every piece of the library getAllOrientations returns between 1
\* and 8 shapes, each normalized and with as many cells as the base shape,
\* no two of them the same cell list.
C14_OrientationTable ==
  drv.phase # "load" =>
    \A p \in PieceIds :
      LET o == drv.table[p]
      IN /\ Len(o) >= 1 /\ Len(o) <= 8
         /\ \A i \in 1..Len(o) : IsNormalized(o[i]) /\ Len(o[i]) = Len(PIECE_MAP[p].shape)
         /\ \A i \in 1..Len(o) : \A j \in 1..Len(o) : i # j => o[i] # o[j]

\* The table is built, and a piece has 8 orientations in it.
C14_Witness ==
  drv.phase = "table" /\ \E p \in PieceIds : Len(drv.table[p]) = 8

\* C15: rotate90CW applied four times to an orientation of a library piece
\* gives the shape started from, and so does flipH applied twice.
C15_RoundTrips ==
  /\ drv.phase = "shape" /\ drv.ops = <<"rotate", "rotate", "rotate", "rotate">>
       => drv.shape = drv.start
  /\ drv.phase = "shape" /\ drv.ops = <<"flip", "flip">> => drv.shape = drv.start

\* A shape that one quarter turn changes has been turned four times.
C15_Witness ==
  /\ drv.phase = "shape" /\ drv.ops = <<"rotate", "rotate", "rotate", "rotate">>
  /\ rotate90CW(drv.start) # drv.start

\* A set of cells moved so that its least column and least row are 0
Shift(S) ==
  LET mc == CHOOSE c \in {x[1] : x \in S} : \A x \in S : c <= x[1]
      mr == CHOOSE r \in {x[2] : x \in S} : \A x \in S : r <= x[2]
  IN {<<x[1] - mc, x[2] - mr>> : x \in S}

\* A quarter turn and a mirror image of a set of cells
Turn(S) == {<<-x[2], x[1]>> : x \in S}

Mirror(S) == {<<-x[1], x[2]>> : x \in S}

\* The image of S under the g-th of the 8 turns and mirror images (0: S).
RECURSIVE Image(_, _)
Image(g, S) ==
  IF g = 0 THEN S
  ELSE IF g = 4 THEN Mirror(S)
  ELSE Turn(Image(g - 1, S))

\* Some turn or mirror image other than the identity leaves the shape as
\* it is.
Symmetric(S) == \E g \in 1..7 : Shift(Image(g, S)) = Shift(S)

\* C16: a piece with a symmetry has fewer than 8 orientations; the 2x2
\* square K has exactly 1 and the straight line L exactly 2; and the first
\* entry of every orientation list is the base shape, normalized.
C16_SymmetricPieces ==
  drv.phase # "load" =>
    /\ \A p \in PieceIds : Symmetric(CellSet(PIECE_MAP[p].shape)) => Len(drv.table[p]) < 8
    /\ Len(drv.table["K"]) = 1
    /\ Len(drv.table["L"]) = 2
    /\ \A p \in PieceIds :
         /\ Len(drv.table[p]) >= 1
         /\ IsNormalized(drv.table[p][1])
         /\ CellSet(drv.table[p][1]) = Shift(CellSet(PIECE_MAP[p].shape))

\* The table is built; K and L have a symmetry, and a piece without one
\* has a mirror image that differs from it.
C16_Witness ==
  /\ drv.phase = "table"
  /\ Symmetric(CellSet(PIECE_MAP["K"].shape)) /\ Symmetric(CellSet(PIECE_MAP["L"].shape))
  /\ \E p \in PieceIds :
       /\ ~Symmetric(CellSet(PIECE_MAP[p].shape))
       /\ CellSet(flipH(drv.table[p][1])) # CellSet(drv.table[p][1])

\* C17: the 12 pieces of the library are 12 different polyominoes: for two
\* different piece ids no orientation of one is an orientation of the other.
C17_PiecesUnique ==
  drv.phase # "load" =>
    \A p \in PieceIds : \A q \in PieceIds :
      p # q => {drv.table[p][i] : i \in 1..Len(drv.table[p])}
                 \cap {drv.table[q][j] : j \in 1..Len(drv.table[q])} = {}

----------------------------------------------------------------------------
(* The page in challenge mode: challenge 1 (state.currentChallengeId's     *)
(* initial value) has been loaded by switchMode('challenge'); the player   *)
(* has placed nothing yet, or has placed K where the solution has it, by   *)
(* clicks.                                                                 *)

RECURSIVE pressKeys(_, _)
pressKeys(w, keys) ==
  IF keys = <<>> THEN w ELSE pressKeys(handleKeyDown(w, Head(keys)), Tail(keys))

\* A click on a tray piece, key presses, and a click on the board cell under
\* which the piece in hand has its origin at (col, row)
clickPlace(w, pieceId, keys, col, row) ==
  LET w1 == pressKeys(handleTrayClick(w, TRUE, pieceId), keys)
  IN handleBoardClick(w1, TRUE, col + w1.state.selected.anchorCol,
                      row + w1.state.selected.anchorRow)

\* switchMode('challenge') with the challenges ready
switchToChallenge(w) ==
  loadChallenge([w EXCEPT !.state.gameMode = "challenge"], w.state.currentChallengeId)

InitChallenge ==
  /\ heap = <<createEmptyBoard>>
  /\ callBoard = 1
  /\ workBoard = 1
  /\ boardAtCall = createEmptyBoard
  /\ availablePieceIds = <<>>
  /\ idsAtCall = <<>>
  /\ mode = "solve"
  /\ maxCount = 2
  /\ remaining = <<>>
  /\ solution = <<>>
  /\ counter = 0
  /\ stack = <<>>
  /\ pc = "idle"
  /\ result = NoResult
  /\ drv = [phase |-> "page"]
  /\ \E touch \in BOOLEAN : \E played \in BOOLEAN :
       LET loaded == switchToChallenge(InitialUi(touch))
       IN ui = IF played THEN clickPlace(loaded, "K", <<>>, 5, 3) ELSE loaded

\* The Retry button of the win overlay: overlay.remove(); loadChallenge(ch.id)
WinRetry ==
  /\ Running
  /\ ~ui.ptr.down
  /\ ui.overlay
  /\ ui.state.gameMode = "challenge"
  /\ ui' = loadChallenge([Begin(ui) EXCEPT !.overlay = FALSE], ui.state.currentChallenge.id)
  /\ UNCHANGED searchVars

NextChallenge ==
  \/ PointerMove \/ PointerDown \/ PointerUp \/ Click
  \/ KeyDown \/ ContextMenu \/ ButtonClick \/ WinRetry

SpecChallenge == InitChallenge /\ [][NextChallenge]_vars

\* C18: in challenge mode a locked piece can be neither removed nor dragged
\* nor selected: as long as the challenge is loaded every pre-placed piece
\* is in state.lockedPieces and in state.placed, and every cell of it holds
\* its id, whatever clicks, drags and key presses come.
C18_LockedPiecesStay ==
  ui.state.gameMode = "challenge" =>
    \A n \in 1..Len(ui.state.currentChallenge.prePlaced) :
      LET pp == ui.state.currentChallenge.prePlaced[n]
      IN /\ pp.pieceId \in ui.state.lockedPieces
         /\ pp.pieceId \in DOMAIN ui.state.placed
         /\ ui.state.selected.id # pp.pieceId
         /\ \A cell \in ShapeCells(ORIENTATIONS[pp.pieceId][pp.orientationIndex + 1],
                                   pp.col, pp.row) :
              ui.state.board[cell[2]][cell[1]] = pp.pieceId

\* The timer runs: its interval is active
TimerRuns(w) == w.state.timerInterval

\* Every cell of the board holds a piece
FullBoard(w) == Occupied(w.state.board) = Grid

\* The pieces on the board that are not locked
PlayerPlaced(w) == DOMAIN w.state.placed \ w.state.lockedPieces

----------------------------------------------------------------------------
(* challenges.js: generateChallengesAsync, with the worker's               *)
(* 'solveMultiple' handler of solver-worker.js.  The page asks the worker  *)
(* for the solutions of SOLUTION_SEEDS and builds the challenges from its  *)
(* answer; with no worker, or when the worker fails or does not answer in  *)
(* time, it calls _generateSync instead.                                   *)

\* new Worker(...) and worker.postMessage({type: 'solveMultiple', count,
\* seeds}), or the catch branch: resolve(_generateSync())
InitSolutions ==
  /\ Idle
  /\ \E path \in {"sync", "worker"} :
       \E count \in (IF path = "sync" THEN {0, MaxSeeds} ELSE {MaxSeeds}) :
          drv = [phase |-> IF path = "sync" THEN "loop" ELSE "wloop", path |-> path,
                 count |-> count, i |-> 0, solutions |-> <<>>, seen |-> {},
                 challenges |-> <<>>, rng |-> [hi |-> 0, lo |-> 42]]

\* The worker's loop: board = ...; orderedIds = shuffleWithSeed(allIds,
\* seeds[i]); solution = solveWithOrder(board, orderedIds)
WorkerSolve ==
  /\ pc = "idle"
  /\ drv.phase = "wloop"
  /\ drv.i < drv.count
  /\ LET sh == shuffleWithRng(AllIds, seededRandom(SOLUTION_SEEDS[drv.i + 1]))
     IN /\ Calls(createEmptyBoard, sh.result, "ordered", 2)
        /\ drv' = [drv EXCEPT !.phase = "wsolving", !.rng = sh.rng]

\* if (solution) { solutions.push(solution) }: the worker keeps every
\* solution it finds
WorkerCollect ==
  /\ pc = "done"
  /\ drv.phase = "wsolving"
  /\ drv' = [drv EXCEPT !.phase = "wloop",
                        !.i = drv.i + 1,
                        !.solutions = IF result.isNull THEN drv.solutions
                                      ELSE Append(drv.solutions, result.value)]
  /\ pc' = "idle"
  /\ UNCHANGED <<heap, callBoard, workBoard, boardAtCall, availablePieceIds, idsAtCall,
                 mode, maxCount, remaining, solution, counter, stack, result, ui>>

\* self.postMessage({type: 'solvedMultiple', solutions}) and the page's
\* worker.onmessage: with a solution, buildChallengesFromSolutions(
\* e.data.solutions); with none, resolve(_generateSync())
WorkerMessage ==
  /\ pc = "idle"
  /\ drv.phase = "wloop"
  /\ drv.i = drv.count
  /\ drv' = IF Len(drv.solutions) > 0
            THEN [drv EXCEPT !.phase = "built",
                             !.challenges = buildChallengesFromSolutions(drv.solutions)]
            ELSE [drv EXCEPT !.phase = "loop", !.path = "sync", !.i = 0,
                             !.solutions = <<>>, !.seen = {}]
  /\ UNCHANGED <<heap, callBoard, workBoard, boardAtCall, availablePieceIds, idsAtCall,
                 mode, maxCount, remaining, solution, counter, stack, pc, result, ui>>

\* The timeout or worker.onerror: worker.terminate(); resolve(_generateSync()).
\* The worker's solutions are dropped and the synchronous loop starts afresh.
WorkerFails ==
  /\ pc = "idle"
  /\ drv.phase = "wloop"
  /\ drv' = [drv EXCEPT !.phase = "loop", !.path = "sync", !.i = 0,
                        !.solutions = <<>>, !.seen = {}]
  /\ UNCHANGED <<heap, callBoard, workBoard, boardAtCall, availablePieceIds, idsAtCall,
                 mode, maxCount, remaining, solution, counter, stack, pc, result, ui>>

NextSolutions ==
  \/ WorkerSolve \/ WorkerCollect \/ WorkerMessage \/ WorkerFails
  \/ BuildSolve \/ BuildCollect \/ BuildFallback \/ BuildChallenges
  \/ OrderedCall \/ OrderedEnter \/ OrderedTry \/ OrderedReturn
  \/ SolveCall \/ SolveEnter \/ SolveTry \/ SolveReturn

SpecSolutions == InitSolutions /\ [][NextSolutions]_vars

\* The origin at which a solution places a piece
OriginOf(sol, pieceId) ==
  LET n == CHOOSE n \in 1..Len(sol) : sol[n].pieceId = pieceId
  IN <<sol[n].col, sol[n].row>>

----------------------------------------------------------------------------
(* challenges.js: generateChallengesAsync as the page's event loop runs    *)
(* it: the promise, the 30 s timer, the worker and the events it queues    *)
(* for the page.  The worker is the 'solveMultiple' handler ("solver"), a  *)
(* worker script without that handler, which never answers ("silent"), a   *)
(* worker that raises an error event ("faulty"), or a worker that answers  *)
(* with some other message ("foreign"); with "throws" the constructor      *)
(* throws and the catch branch runs.                                       *)

WorkerKinds == {"solver", "silent", "faulty", "foreign", "throws"}

NoMessage == [type |-> "none", solutions |-> <<>>]

\* The messages of a foreign worker: no solutions, an old-style single
\* solution (e.data.solution is solutions[1] here), no solution, another type
ForeignMessages ==
  {[type |-> "solvedMultiple", solutions |-> <<>>],
   [type |-> "solved", solutions |-> <<ReferenceSolution>>],
   [type |-> "solved", solutions |-> <<>>],
   [type |-> "ready", solutions |-> <<>>]}

\* Mutant of terminate: the events the worker has queued stay queued.
terminateKeeps(d) == [d EXCEPT !.worker = "terminated"]

\* worker.terminate(): the worker stops and the messages it has queued for
\* the page are discarded
terminate(d) == [d EXCEPT !.worker = "terminated", !.inbox = NoMessage]

\* resolve(value)
resolve(d, value) ==
  [d EXCEPT !.phase = "resolved", !.resolved = d.resolved + 1, !.value = value]

\* resolve(_generateSync()): if (_generatedChallenges) return it; otherwise
\* the synchronous loop starts
generateSync(d) ==
  IF d.challenges # <<>>
  THEN resolve([d EXCEPT !.fellBack = TRUE], d.challenges)
  ELSE [d EXCEPT !.phase = "loop", !.path = "sync", !.i = 0, !.solutions = <<>>,
                 !.seen = {}, !.fellBack = TRUE]

\* The worker's search is gone with the worker.
WorkerGone ==
  /\ heap' = <<createEmptyBoard>>
  /\ callBoard' = 1
  /\ workBoard' = 1
  /\ boardAtCall' = createEmptyBoard
  /\ availablePieceIds' = <<>>
  /\ idsAtCall' = <<>>
  /\ mode' = "ordered"
  /\ maxCount' = 2
  /\ remaining' = <<>>
  /\ solution' = <<>>
  /\ counter' = 0
  /\ stack' = <<>>
  /\ pc' = "idle"
  /\ result' = NoResult

\* The page is between two tasks: it waits for the worker or has resolved.
PageWaits == drv.phase \in {"wstart", "wloop", "wsolving", "posted", "resolved"}

\* new Promise(...): new Worker(...), setTimeout(..., 30000), the handlers
\* and worker.postMessage({type: 'solveMultiple', count, seeds}); or the
\* catch branch.  count stands for SOLUTIONS_NEEDED; 0 makes the
\* synchronous loop end without a solution.
InitAsync ==
  /\ Idle
  /\ ui = NoPage
  /\ \E kind \in WorkerKinds :
     \E count \in (IF kind = "throws" THEN {0, MaxSeeds} ELSE {MaxSeeds}) :
       LET d == [phase |-> IF kind = "solver" THEN "wloop" ELSE "wstart",
                 path |-> "worker", kind |-> kind, count |-> count, i |-> 0,
                 solutions |-> <<>>, seen |-> {}, challenges |-> <<>>,
                 rng |-> [hi |-> 0, lo |-> 42],
                 worker |-> "running", timer |-> "armed", inbox |-> NoMessage,
                 resolved |-> 0, value |-> <<>>, fellBack |-> FALSE, handled |-> 0]
       IN drv = IF kind = "throws"
                THEN generateSync([d EXCEPT !.worker = "none", !.timer = "none"])
                ELSE d

\* self.postMessage({type: 'solvedMultiple', solutions}) at the end of the
\* worker's loop
WorkerPost ==
  /\ pc = "idle"
  /\ drv.phase = "wloop"
  /\ drv.worker = "running"
  /\ drv.i = drv.count
  /\ drv' = [drv EXCEPT !.phase = "posted",
                        !.inbox = [type |-> "solvedMultiple", solutions |-> drv.solutions]]
  /\ UNCHANGED <<searchState, ui>>

\* A worker that answers with another message
WorkerForeign ==
  /\ drv.phase = "wstart"
  /\ drv.kind = "foreign"
  /\ drv.worker = "running"
  /\ \E m \in ForeignMessages : drv' = [drv EXCEPT !.phase = "posted", !.inbox = m]
  /\ UNCHANGED <<searchState, ui>>

\* An uncaught error in the worker: an error event is queued for the page
WorkerError ==
  /\ drv.phase = "wstart"
  /\ drv.kind = "faulty"
  /\ drv.worker = "running"
  /\ drv' = [drv EXCEPT !.phase = "posted", !.inbox = [type |-> "error", solutions |-> <<>>]]
  /\ UNCHANGED <<searchState, ui>>

\* The setTimeout callback: worker.terminate(); resolve(_generateSync())
AsyncTimeout ==
  /\ PageWaits
  /\ drv.timer = "armed"
  /\ drv' = generateSync(terminate([drv EXCEPT !.timer = "fired"]))
  /\ WorkerGone
  /\ UNCHANGED ui

\* worker.onmessage: clearTimeout(timeout); worker.terminate(); then the
\* three branches
AsyncOnMessage ==
  /\ PageWaits
  /\ drv.inbox.type \notin {"none", "error"}
  /\ LET data == drv.inbox
         d    == terminate([drv EXCEPT !.timer = "cleared", !.handled = drv.handled + 1])
     IN drv' = IF data.type = "solvedMultiple" /\ Len(data.solutions) > 0
               THEN LET built == buildChallengesFromSolutions(data.solutions)
                    IN resolve([d EXCEPT !.challenges = built], built)
               ELSE IF data.type = "solved" /\ data.solutions # <<>>
               THEN LET built == buildChallengesFromSolutions(<<data.solutions[1]>>)
                    IN resolve([d EXCEPT !.challenges = built, !.solutions = data.solutions], built)
               ELSE generateSync(d)
  /\ WorkerGone
  /\ UNCHANGED ui

\* worker.onerror: clearTimeout(timeout); worker.terminate();
\* resolve(_generateSync())
AsyncOnError ==
  /\ PageWaits
  /\ drv.inbox.type = "error"
  /\ drv' = generateSync(terminate([drv EXCEPT !.timer = "cleared",
                                               !.handled = drv.handled + 1]))
  /\ WorkerGone
  /\ UNCHANGED ui

\* _generateSync returns the list it built and resolve is called with it
AsyncResolve ==
  /\ pc = "idle"
  /\ drv.phase = "built"
  /\ drv' = resolve(drv, drv.challenges)
  /\ UNCHANGED <<searchState, ui>>

NextAsync ==
  \/ WorkerSolve \/ WorkerCollect \/ WorkerPost \/ WorkerForeign \/ WorkerError
  \/ AsyncTimeout \/ AsyncOnMessage \/ AsyncOnError \/ AsyncResolve
  \/ BuildSolve \/ BuildCollect \/ BuildFallback \/ BuildChallenges
  \/ OrderedCall \/ OrderedEnter \/ OrderedTry \/ OrderedReturn
  \/ SolveCall \/ SolveEnter \/ SolveTry \/ SolveReturn

SpecAsync == InitAsync /\ [][NextAsync]_vars

\* Nothing is left to run: the promise has been resolved.
AsyncQuiet == drv.phase = "resolved"

\* The event loop runs the tasks that are queued, the timer fires, and the
\* worker and the synchronous search take their steps: the program does not
\* stand still while something is left to run.
SpecAsyncLive == SpecAsync /\ ([]<>AsyncQuiet \/ []<><<NextAsync>>_vars)

----------------------------------------------------------------------------
(* generateChallenge: the ways it ends.                                    *)

\* C22: running out of attempts is an ordinary result of generateChallenge.
\* It returns null, with no descriptor, when solve gave no reference
\* solution and when the loop ends with every attempt rejected; it returns
\* null in no other case; and an attempt whose subset does not have exactly
\* one filling is never emitted: the loop goes on to the next attempt.
C22_ExhaustionReturnsNull ==
  [][/\ (pc = "done" /\ drv.phase = "solve" /\ result.isNull) =>
           drv'.phase = "returned" /\ drv'.isNull /\ drv'.ret = <<>>
     /\ (pc = "idle" /\ drv.phase = "loop" /\ drv.attempt >= MaxAttempts) =>
           drv'.phase = "returned" /\ drv'.isNull /\ drv'.ret = <<>>
     /\ (pc = "done" /\ drv.phase = "count"
           /\ Min(NumCovers(boardAtCall, idsAtCall), 2) # 1) =>
           drv'.phase = "loop" /\ drv'.attempt = drv.attempt + 1 /\ drv'.ret = <<>>
     /\ (drv.phase # "returned" /\ drv'.phase = "returned" /\ drv'.isNull) =>
           \/ drv.phase = "solve" /\ result.isNull
           \/ drv.phase = "loop" /\ drv.attempt = MaxAttempts
     /\ drv'.phase \in {"start", "solve", "count", "loop", "returned"}]_vars

\* Every attempt was rejected and null was returned.
C22_Witness ==
  /\ drv.phase = "returned"
  /\ drv.isNull
  /\ drv.ret = <<>>
  /\ drv.attempt = MaxAttempts
  /\ Len(drv.solution) = Len(PIECES)


----------------------------------------------------------------------------
(* The searches without the island check: _solve, _solveOrdered and        *)
(* _countSolve with `if (!hasDeadIslands(board, newMin))` taken out, so    *)
(* that every placement that fits is followed by the recursive call.  The  *)
(* value carries the Set `remaining` as the call leaves it, since the      *)
(* order of the Set decides the order of the later loops.                  *)

\* The placement of candidate pos = <<i, oi, k>> of ids on the target
CandidateAt(ids, target, pos) ==
  PlacementOf([NewFrame(ids) EXCEPT !.i = pos[1], !.oi = pos[2], !.k = pos[3],
                                    !.tc = target.col, !.tr = target.row])

RECURSIVE PlainSolve(_, _), PlainSolveLoop(_, _, _, _, _)
PlainSolve(board, rem) ==
  LET target == findFirstEmpty(board)
  IN IF target = NoCell THEN [found |-> TRUE, rem |-> rem]
     ELSE PlainSolveLoop(board, rem, rem, target, <<1, 1, 1>>)

PlainSolveLoop(board, rem, ids, target, pos) ==
  LET hit == FirstFit(board, ids, target.col, target.row, pos)
  IN IF hit[1] > Len(ids) THEN [found |-> FALSE, rem |-> rem]
     ELSE LET p     == CandidateAt(ids, target, hit)
              inner == PlainSolve(placePiece(board, p.pieceId, p.shape, p.col, p.row),
                                  SetDelete(rem, p.pieceId))
          IN IF inner.found THEN inner
             ELSE PlainSolveLoop(board, SetAdd(inner.rem, p.pieceId), ids, target,
                                 NextPos(ids, hit[1], hit[2], hit[3]))

RECURSIVE PlainOrdered(_, _), PlainOrderedLoop(_, _, _, _)
PlainOrdered(board, ids) ==
  LET target == findFirstEmpty(board)
  IN IF target = NoCell THEN TRUE ELSE PlainOrderedLoop(board, ids, target, <<1, 1, 1>>)

PlainOrderedLoop(board, ids, target, pos) ==
  LET hit == FirstFit(board, ids, target.col, target.row, pos)
  IN IF hit[1] > Len(ids) THEN FALSE
     ELSE LET p == CandidateAt(ids, target, hit)
          IN \/ PlainOrdered(placePiece(board, p.pieceId, p.shape, p.col, p.row),
                             WithoutIndex(ids, hit[1]))
             \/ PlainOrderedLoop(board, ids, target, NextPos(ids, hit[1], hit[2], hit[3]))

RECURSIVE PlainCount(_, _, _, _), PlainCountLoop(_, _, _, _, _, _, _)
PlainCount(board, rem, count, cap) ==
  IF count >= cap THEN [count |-> count, rem |-> rem]
  ELSE LET target == findFirstEmpty(board)
       IN IF target = NoCell THEN [count |-> count + 1, rem |-> rem]
          ELSE PlainCountLoop(board, rem, rem, target, <<1, 1, 1>>, count, cap)

PlainCountLoop(board, rem, ids, target, pos, count, cap) ==
  LET hit == FirstFit(board, ids, target.col, target.row, pos)
  IN IF hit[1] > Len(ids) THEN [count |-> count, rem |-> rem]
     ELSE LET p     == CandidateAt(ids, target, hit)
              inner == PlainCount(placePiece(board, p.pieceId, p.shape, p.col, p.row),
                                  SetDelete(rem, p.pieceId), count, cap)
              back  == SetAdd(inner.rem, p.pieceId)
          IN IF inner.count >= cap THEN [count |-> inner.count, rem |-> back]
             ELSE PlainCountLoop(board, back, ids, target,
                                 NextPos(ids, hit[1], hit[2], hit[3]), inner.count, cap)

\* C23: the island check never discards a branch that holds a solution.
\* When solve or solveWithOrder returns, it returns a solution exactly when
\* the same search without the check finds one, and when countSolutions
\* returns, its number is the number the same search without the check
\* arrives at.
C23_PruningIsSound ==
  [][(pc = "run" /\ pc' = "done") =>
       /\ mode = "solve" =>
            (~result'.isNull <=>
               PlainSolve(boardAtCall, SortLargerFirst(NewSet(idsAtCall))).found)
       /\ mode = "ordered" => (~result'.isNull <=> PlainOrdered(boardAtCall, idsAtCall))
       /\ mode = "count" =>
            result'.count = PlainCount(boardAtCall, NewSet(idsAtCall), 0, maxCount).count]_vars

\* The search has come to a placement that leaves a dead region, on a board
\* that has a solution, with at least one solution counted or a piece placed.
C23_Witness ==
  /\ AboutToLeaveDeadRegion
  /\ NumCovers(boardAtCall, idsAtCall) >= 1
  /\ Len(stack) >= 2
  /\ mode \in {"solve", "count"}


----------------------------------------------------------------------------
(* What a call of _solve, _solveOrdered or _countSolve was entered with.   *)
(* The callers of the top frame stand in the stack below it, each at the   *)
(* placement it made before its recursive call.                            *)

\* The placements the callers of the top frame have made, outermost first
CallerPlacements == [n \in 1..(Len(stack) - 1) |-> PlacementOf(stack[n])]

\* The work board as the top frame's call found it
EntryBoard == WriteAll(boardAtCall, CallerPlacements)

\* The piece ids that were left when the top frame's call was entered
EntryRemaining ==
  {idsAtCall[n] : n \in 1..Len(idsAtCall)} \ {CallerPlacements[n].pieceId : n \in 1..Len(CallerPlacements)}

\* The solution stack as the top frame's call found it
EntrySolution == IF mode = "count" THEN <<>> ELSE CallerPlacements

\* C24: undo on return.  At every entry of _solve, _solveOrdered and
\* _countSolve the work board holds the caller's board with the callers'
\* placements on it, the pieces left are the offered ones without the
\* callers' pieces, and the solution stack holds the callers' placements;
\* and whenever _solve or _solveOrdered is about to return false, or
\* _countSolve is about to return (at the cap, after counting a full board,
\* or with its loops run out), the three hold exactly that again.
C24_UndoOnReturn ==
  (pc = "run" /\ (Top.st = "enter" \/ Returning(Top))) =>
     /\ heap[workBoard] = EntryBoard
     /\ solution = EntrySolution
     /\ mode \in {"solve", "count"} =>
          {remaining[n] : n \in 1..Len(remaining)} = EntryRemaining
     /\ mode = "ordered" =>
          {Top.ids[n] : n \in 1..Len(Top.ids)} = EntryRemaining

\* A call two levels down returns after its own placements were undone:
\* _solve with its loops run out, and _countSolve at the cap.
C24_Witness ==
  /\ pc = "run"
  /\ Len(stack) >= 3
  /\ Returning(Top)
  /\ \/ mode = "solve" /\ Top.st = "loop" /\ Top.ids # <<>>
     \/ mode = "count" /\ Top.st = "ret" /\ counter >= maxCount /\ maxCount >= 1
  /\ EntryBoard # boardAtCall


----------------------------------------------------------------------------
(* The order in which the search fills the board.                          *)

\* Cell a comes before cell b in row-major order (cells are <<col, row>>)
RowMajorBefore(a, b) == a[2] < b[2] \/ (a[2] = b[2] /\ a[1] < b[1])

\* The empty cell of the board that comes before every other empty cell
FirstEmptyOf(board) ==
  CHOOSE cell \in EmptyCells(board) :
    \A other \in EmptyCells(board) : other = cell \/ RowMajorBefore(cell, other)

\* The first empty cell of the caller's board with the first n - 1
\* placements of sol on it: the cell placement n has to cover
TargetOf(sol, n) == FirstEmptyOf(WriteAll(boardAtCall, SubSeq(sol, 1, n - 1)))

\* C25: the search fills the board in row-major order.  Every placement it
\* keeps (it recurses after it) covers the empty cell that comes first in
\* row-major order on the work board as it was, so every cell before that
\* cell is filled already and stays filled; and in a returned solution each
\* placement covers the first cell the earlier placements left empty, these
\* cells coming in strictly increasing row-major order.
C25_RowMajorFill ==
  [][/\ (pc = "run" /\ Len(stack') = Len(stack) + 1) =>
          LET target == FirstEmptyOf(heap[workBoard])
              filled == EmptyCells(heap[workBoard]) \ EmptyCells(heap'[workBoard'])
          IN /\ target \in filled
             /\ EmptyCells(heap'[workBoard']) \subseteq EmptyCells(heap[workBoard])
             /\ mode # "count" => filled = EntryCells(solution'[Len(solution')])
     /\ (pc = "run" /\ pc' = "done" /\ mode # "count" /\ ~result'.isNull) =>
          \A n \in 1..Len(result'.value) :
             /\ TargetOf(result'.value, n) \in EntryCells(result'.value[n])
             /\ n > 1 => RowMajorBefore(TargetOf(result'.value, n - 1),
                                        TargetOf(result'.value, n))]_vars

\* A solution of three placements or more has been returned whose targets
\* lie in more than one row.
C25_Witness ==
  /\ pc = "done"
  /\ mode \in {"solve", "ordered"}
  /\ ~result.isNull
  /\ Len(result.value) >= 3
  /\ \E n \in 2..Len(result.value) :
       TargetOf(result.value, n)[2] > TargetOf(result.value, n - 1)[2]


----------------------------------------------------------------------------
(* The seeded shuffle on its own: shuffleWithSeed of solver-worker.js and  *)
(* shuffleWithRng(arr, seededRandom(seed)) of challenges.js, called with a *)
(* seed and an array.                                                      *)

\* The seeds of the calls: SOLUTION_SEEDS, and two seeds whose generator
\* reaches the state 0xFFFFFFFF, at its first and at its fifth step
\* (653637408 * 1664525 + 1013904223 = 0xFFFFFFFF modulo 2^32).
ShuffleSeeds ==
  {SOLUTION_SEEDS[n] : n \in 1..Len(SOLUTION_SEEDS)} \cup {653637408, 1927915308}

\* The arrays of the calls: the first n piece ids
ShuffleArrays == {SubSeq(AllIds, 1, n) : n \in 0..Len(AllIds)}

InitShuffle ==
  /\ Idle
  /\ ui = NoPage
  /\ \E seed \in ShuffleSeeds, arr \in ShuffleArrays :
       drv = [phase |-> "input", seed |-> seed, arr |-> arr, by |-> "none", out |-> <<>>]

\* solver-worker.js: shuffleWithSeed(arr, seed)
ShuffleBySeed ==
  /\ drv.phase = "input"
  /\ drv' = [drv EXCEPT !.phase = "done", !.by = "shuffleWithSeed",
                        !.out = shuffleWithSeed(drv.arr, drv.seed).result]
  /\ UNCHANGED <<searchState, ui>>

\* challenges.js: shuffleWithRng(arr, seededRandom(seed))
ShuffleByRng ==
  /\ drv.phase = "input"
  /\ drv' = [drv EXCEPT !.phase = "done", !.by = "shuffleWithRng",
                        !.out = shuffleWithRng(drv.arr, seededRandom(drv.seed)).result]
  /\ UNCHANGED <<searchState, ui>>

NextShuffle == ShuffleBySeed \/ ShuffleByRng

SpecShuffle == InitShuffle /\ [][NextShuffle]_vars

\* C26: the seeded shuffle is a permutation generator: for every seed and
\* every array the shuffled array has the length of the input and holds
\* exactly its elements, none of them undefined.
C26_ShuffleIsPermutation ==
  drv.phase = "done" =>
     /\ Len(drv.out) = Len(drv.arr)
     /\ {drv.out[n] : n \in 1..Len(drv.out)} = {drv.arr[n] : n \in 1..Len(drv.arr)}
     /\ \A n \in 1..Len(drv.out) : drv.out[n] # UNDEFINED

----------------------------------------------------------------------------
(* The locked pieces of a built challenge, as loadChallenge places them,   *)
(* against the reference solution the challenge was cut from.              *)

\* The page after loadChallenge's loop over the prePlaced entries of ch
LockedBy(ch) ==
  placeLocked([InitialUi(FALSE) EXCEPT !.state.gameMode = "challenge",
                                       !.state.currentChallenge = NoChallenge],
              ch.prePlaced)

\* The cells the piece pieceId occupies in the solution sol
CellsIn(sol, pieceId) ==
  UNION {EntryCells(sol[n]) : n \in {m \in 1..Len(sol) : sol[m].pieceId = pieceId}}

\* The cells of a board that hold id
CellsOf(board, id) == {cell \in Grid : board[cell[2]][cell[1]] = id}

\* The cells of the table's shape for a prePlaced entry
DescriptorCells(pp) ==
  ShapeCells(ORIENTATIONS[pp.pieceId][pp.orientationIndex + 1], pp.col, pp.row)

\* C27: every placement of a solver solution has shape =
\* ORIENTATIONS[pieceId][orientationIndex]; hence the prePlaced entries of
\* every challenge built, placed by loadChallenge, give each locked piece
\* exactly the cells it has in the reference solution: these cells are in
\* the grid, pairwise disjoint, and the cells left empty are exactly those
\* of the player's pieces in the reference solution.
C27_LockedCellsReproduceSolution ==
  [][(drv.phase # "built" /\ drv'.phase = "built") =>
       LET solutions  == drv'.solutions
           challenges == drv'.challenges
       IN /\ \A s \in 1..Len(solutions) : \A n \in 1..Len(solutions[s]) :
               LET p == solutions[s][n]
               IN /\ p.orientationIndex + 1 \in 1..Len(ORIENTATIONS[p.pieceId])
                  /\ p.shape = ORIENTATIONS[p.pieceId][p.orientationIndex + 1]
          /\ \A n \in 1..Len(challenges) :
               LET ch     == challenges[n]
                   sol    == solutions[(((n - 1) % CHALLENGES_PER_DIFFICULTY) % Len(solutions)) + 1]
                   w      == LockedBy(ch)
                   locked == {ch.prePlaced[k].pieceId : k \in 1..Len(ch.prePlaced)}
                   player == {ch.playerPieceIds[k] : k \in 1..Len(ch.playerPieceIds)}
               IN /\ ~w.threw
                  /\ w.state.lockedPieces = locked
                  /\ \A k \in 1..Len(ch.prePlaced) :
                       /\ DescriptorCells(ch.prePlaced[k]) \subseteq Grid
                       /\ DescriptorCells(ch.prePlaced[k]) = CellsIn(sol, ch.prePlaced[k].pieceId)
                       /\ CellsOf(w.state.board, ch.prePlaced[k].pieceId)
                            = CellsIn(sol, ch.prePlaced[k].pieceId)
                       /\ \A j \in 1..Len(ch.prePlaced) :
                            j # k => DescriptorCells(ch.prePlaced[j])
                                       \cap DescriptorCells(ch.prePlaced[k]) = {}
                  /\ Grid \ Occupied(w.state.board) = UNION {CellsIn(sol, id) : id \in player}]_vars

\* The list has been built from MaxSeeds solutions; its first challenge
\* locks a piece in an orientation that is not the first of the table, its
\* last one leaves ten pieces to the player.
C27_Witness ==
  /\ drv.phase = "built"
  /\ Len(drv.solutions) = MaxSeeds
  /\ Len(drv.challenges) = DIFFICULTY_LEVELS * CHALLENGES_PER_DIFFICULTY
  /\ drv.challenges[1].prePlaced[1].orientationIndex > 0
  /\ Len(drv.challenges[Len(drv.challenges)].prePlaced) = 2
  /\ Len(drv.challenges[Len(drv.challenges)].playerPieceIds) = 10

----------------------------------------------------------------------------
(* The shape of the challenge list.                                        *)

\* C28: the list built has 50 challenges with ids 1..50 in order, 10 at
\* each of the difficulties 1..5; in every challenge the prePlaced piece
\* ids and playerPieceIds are disjoint and together all 12 piece ids, no id
\* is listed twice, and the number of prePlaced pieces is 12 minus the
\* playerPieces of the challenge's difficulty in DIFFICULTY_CONFIG.
C28_ChallengeListShape ==
  drv.phase = "built" =>
    /\ Len(drv.challenges) = 50
    /\ \A n \in 1..Len(drv.challenges) : drv.challenges[n].id = n
    /\ \A d \in 1..5 :
         Cardinality({n \in 1..Len(drv.challenges) : drv.challenges[n].difficulty = d}) = 10
    /\ \A n \in 1..Len(drv.challenges) :
         LET ch     == drv.challenges[n]
             locked == {ch.prePlaced[k].pieceId : k \in 1..Len(ch.prePlaced)}
             player == {ch.playerPieceIds[k] : k \in 1..Len(ch.playerPieceIds)}
         IN /\ ch.difficulty \in 1..5
            /\ locked \cap player = {}
            /\ locked \cup player = PieceIds
            /\ Cardinality(PieceIds) = 12
            /\ Cardinality(locked) = Len(ch.prePlaced)
            /\ Cardinality(player) = Len(ch.playerPieceIds)
            /\ Len(ch.prePlaced) = 12 - DIFFICULTY_CONFIG[ch.difficulty].playerPieces
            /\ ch.name = DIFFICULTY_CONFIG[ch.difficulty].name

\* The list has been built from the solutions of the seeds: challenge 1 is
\* a Starter with two pieces for the player, challenge 50 a Wizard with ten.
C28_Witness ==
  /\ drv.phase = "built"
  /\ drv.count = MaxSeeds
  /\ drv.challenges[1].difficulty = 1
  /\ Len(drv.challenges[1].playerPieceIds) = 2
  /\ drv.challenges[50].id = 50
  /\ drv.challenges[50].difficulty = 5
  /\ Len(drv.challenges[50].playerPieceIds) = 10

----------------------------------------------------------------------------
(* The drag of the piece in hand from the preview area onto the board.     *)

\* A pointer-up that ends a preview drag
PreviewDragEnds ==
  /\ ~ui.threw
  /\ ui.ptr.down /\ ~ui'.ptr.down
  /\ ~ui.previewDragState.isNull /\ ui.previewDragState.isDragging
  /\ ui.state.selected.id # NULL

\* The preview is valid at pointer-up and the shape in hand fits there
DropIsValid ==
  /\ ~ui.state.preview.isNull /\ ui.state.preview.valid
  /\ fits(ui, ui.state.selected.shape, ui.state.preview.col, ui.state.preview.row)

\* C29: when a preview drag ends over a board position where the shape in
\* hand fits (the preview is valid at pointer-up), the piece is placed at
\* that position and deselected; the game is back in 'selected' mode with
\* the piece unplaced only after a drop on an invalid position.
C29_PreviewDragPlaces ==
  [][PreviewDragEnds =>
       /\ DropIsValid =>
            /\ ui.state.selected.id \in DOMAIN ui'.state.placed
            /\ \A cell \in ShapeCells(ui.state.selected.shape,
                                      ui.state.preview.col, ui.state.preview.row) :
                 ui'.state.board[cell[2]][cell[1]] = ui.state.selected.id
            /\ ui'.state.selected.id = NULL
       /\ (ui'.state.mode = "selected" /\ ui'.state.selected.id = ui.state.selected.id)
            => ~DropIsValid]_vars

----------------------------------------------------------------------------
(* game.js: the mode buttons.  switchMode('challenge') asks for the        *)
(* challenges with generateChallengesAsync() as long as                    *)
(* state.challengesReady is not set; each such call starts a generation of *)
(* its own, whose completion runs the then-callback of switchMode.  The    *)
(* player taps the tray piece K and two cells of the board; the Prev and   *)
(* Next buttons are not pressed.                                           *)

\* The generations in flight at a time
MaxPending == 2

\* The tray piece and the cells tapped: K fits at (5,3) in challenge 1
ModePositions == {OnTray("K"), OnBoard(5, 3), OnBoard(0, 3)}

notSearching == <<heap, callBoard, workBoard, boardAtCall, availablePieceIds, idsAtCall,
                  mode, maxCount, remaining, solution, counter, stack, pc, result>>

\* state.challengesReady is false and no generation has been started
InitMode ==
  /\ heap = <<createEmptyBoard>>
  /\ callBoard = 1
  /\ workBoard = 1
  /\ boardAtCall = createEmptyBoard
  /\ availablePieceIds = <<>>
  /\ idsAtCall = <<>>
  /\ mode = "solve"
  /\ maxCount = 2
  /\ remaining = <<>>
  /\ solution = <<>>
  /\ counter = 0
  /\ stack = <<>>
  /\ pc = "idle"
  /\ result = NoResult
  /\ drv = [phase |-> "mode", challengesReady |-> FALSE, pending |-> 0, loading |-> FALSE]
  /\ \E touch \in BOOLEAN : ui = InitialUi(touch)

\* The then-callback of switchMode: challenges.length > 0 always
onChallenges(w) ==
  IF w.state.gameMode = "challenge" THEN loadChallenge(w, w.state.currentChallengeId) ELSE w

\* A click on a mode button: switchMode(btn.dataset.mode)
SwitchMode ==
  \E m \in {"free", "challenge"} :
    /\ Running
    /\ ~ui.ptr.down
    /\ (m = "challenge" /\ m # ui.state.gameMode /\ ~drv.challengesReady)
         => drv.pending < MaxPending
    /\ IF m = ui.state.gameMode THEN UNCHANGED <<ui, drv>>
       ELSE LET w == [Begin(ui) EXCEPT !.state.gameMode = m]
            IN IF m = "free" THEN ui' = resetGame(w) /\ UNCHANGED drv
               ELSE IF drv.challengesReady
                    THEN ui' = loadChallenge(w, w.state.currentChallengeId) /\ UNCHANGED drv
                    ELSE /\ ui' = w
                         /\ drv' = [drv EXCEPT !.pending = @ + 1, !.loading = TRUE]
    /\ UNCHANGED notSearching

\* A generation completes: its promise resolves with the challenges
GenerationDone ==
  /\ ~ui.threw
  /\ drv.pending > 0
  /\ drv' = [drv EXCEPT !.pending = @ - 1, !.challengesReady = TRUE, !.loading = FALSE]
  /\ ui' = onChallenges(Begin(ui))
  /\ UNCHANGED notSearching

\* A tap: the pointer goes (a mouse moves) to a tray piece or a cell, down
\* and up, and the click follows
Tap ==
  \E pos \in ModePositions :
    /\ Running
    /\ ~ui.ptr.down
    /\ \E w1 \in {IF ui.isTouchDevice THEN Begin(ui)
                   ELSE handleDocumentPointerMove(Begin(ui), pos, FALSE)} :
       \E w2 \in {IF pos.on = "board" THEN handleBoardPointerDown(w1, pos.col, pos.row)
                   ELSE handleTrayPointerDown(w1, pos.id)} :
       \E w3 \in {handleDocumentPointerUp(w2)} :
       \E w4 \in {IF pos.on = "board" THEN handleBoardClick(w3, TRUE, pos.col, pos.row)
                   ELSE handleTrayClick(w3, TRUE, pos.id)} :
         ui' = [w4 EXCEPT !.ptr.at = IF ui.isTouchDevice THEN Away ELSE pos]
    /\ UNCHANGED notSearching
    /\ UNCHANGED drv

\* A click on the Reset button
ModeReset ==
  /\ Running
  /\ ~ui.ptr.down
  /\ ui' = resetGame(Begin(ui))
  /\ UNCHANGED notSearching
  /\ UNCHANGED drv

NextMode == SwitchMode \/ GenerationDone \/ Tap \/ ModeReset

SpecMode == InitMode /\ [][NextMode]_vars

\* C30: a completion of the asynchronous generation that arrives when a
\* challenge is loaded and the player has a piece on the board leaves the
\* board, the placed pieces and the timer as they are, however often
\* challenge mode was entered while the generation was pending; and a
\* completion that arrives in free play leaves the board as it is.
C30_CompletionKeepsProgress ==
  [][(drv.phase = "mode" /\ drv'.pending < drv.pending) =>
       /\ (/\ ui.state.gameMode = "challenge"
           /\ ui.state.currentChallenge # NoChallenge
           /\ PlayerPlaced(ui) # {})
            => /\ ui'.state.board = ui.state.board
               /\ ui'.state.placed = ui.state.placed
               /\ ui'.state.timerStarted = ui.state.timerStarted
               /\ ui'.state.timerInterval = ui.state.timerInterval
       /\ ui.state.gameMode = "free"
            => /\ ui'.state.board = ui.state.board
               /\ ui'.state.placed = ui.state.placed]_vars

----------------------------------------------------------------------------
(* The flags that swallow the click following a drag.                      *)

\* C31: suppressNextTrayClick and suppressNextBoardClick only swallow the
\* click of the drag that set them: once the pointer is up, a flag that is
\* set has the click of its own gesture still to come on its listener, so
\* that no flag is still set when a new gesture begins and a later click on
\* the tray or on the board does its work.
C31_SuppressOnlyOwnClick ==
  (~ui.threw /\ ~ui.ptr.down) =>
     /\ ui.suppressNextTrayClick => ui.ptr.click.on = "tray"
     /\ ui.suppressNextBoardClick => ui.ptr.click.on = "board"

----------------------------------------------------------------------------
(* The consistency of the game state.                                      *)

\* C32: after every event a piece id is in state.tray if and only if it is
\* not in state.placed; the cells of the board that hold a piece id are
\* exactly the cells of placed[id].shape translated by placed[id].col and
\* placed[id].row (none for a piece not placed); the piece in hand is in
\* the tray; and state.selected is null exactly when state.mode is 'idle'.
C32_StateConsistent ==
  /\ \A id \in PieceIds : (id \in ui.state.tray) <=> (id \notin DOMAIN ui.state.placed)
  /\ \A id \in PieceIds :
       {cell \in Grid : ui.state.board[cell[2]][cell[1]] = id}
         = IF id \in DOMAIN ui.state.placed
           THEN ShapeCells(ui.state.placed[id].shape, ui.state.placed[id].col,
                           ui.state.placed[id].row)
           ELSE {}
  /\ ui.state.selected.id # NULL => ui.state.selected.id \in ui.state.tray
  /\ (ui.state.selected.id = NULL) <=> (ui.state.mode = "idle")

----------------------------------------------------------------------------
(* The page in free play, by taps and buttons: a tap on a tray piece, the  *)
(* Rotate and Flip buttons, a tap on a cell of the board, and Cancel.  No  *)
(* drag is made.  drv keeps, for the piece in hand, the turns made since   *)
(* it was selected and the orientation indices it went through, and the    *)
(* last event.                                                             *)

\* The turns followed for one piece in hand
MaxTurns == 4

\* The tray pieces tapped: L (2 orientations) and D (8 orientations)
TapPieces == {"L", "D"}

\* The cells tapped
TapCells == {<<1, 1>>, <<2, 2>>, <<5, 1>>}

\* The last event: its kind and, for a tap on the board, the cell and the
\* piece the cell showed (dataset.piece)
NoEvent == [kind |-> "none", col |-> -1, row |-> -1, piece |-> NULL]

InitHand ==
  /\ heap = <<createEmptyBoard>>
  /\ callBoard = 1
  /\ workBoard = 1
  /\ boardAtCall = createEmptyBoard
  /\ availablePieceIds = <<>>
  /\ idsAtCall = <<>>
  /\ mode = "solve"
  /\ maxCount = 2
  /\ remaining = <<>>
  /\ solution = <<>>
  /\ counter = 0
  /\ stack = <<>>
  /\ pc = "idle"
  /\ result = NoResult
  /\ drv = [phase |-> "hand", ops |-> <<>>, trail |-> <<>>, ev |-> NoEvent]
  /\ \E touch \in BOOLEAN : ui = InitialUi(touch)

\* What drv keeps after an event that leaves the page as w: nothing with no
\* piece in hand, a fresh record for a piece just taken in hand, the turn
\* added after a turn
Tracked(w, turn, ev) ==
  [phase |-> "hand",
   ops   |-> IF w.state.selected.id = NULL \/ w.state.selected.id # ui.state.selected.id
             THEN <<>>
             ELSE IF turn = "none" THEN drv.ops ELSE Append(drv.ops, turn),
   trail |-> IF w.state.selected.id = NULL THEN <<>>
             ELSE IF w.state.selected.id # ui.state.selected.id
                  THEN <<w.state.selected.orientationIndex>>
             ELSE IF turn = "none" THEN drv.trail
             ELSE Append(drv.trail, w.state.selected.orientationIndex),
   ev    |-> ev]

\* A tap on a tray piece: pointerdown, pointerup and click on it (a mouse
\* moves there first)
TapTray ==
  \E id \in TapPieces :
    /\ Running
    /\ ~ui.ptr.down
    /\ \E w1 \in {IF ui.isTouchDevice THEN Begin(ui)
                   ELSE handleDocumentPointerMove(Begin(ui), OnTray(id), FALSE)} :
       \E w2 \in {handleTrayPointerDown(w1, id)} :
       \E w3 \in {handleDocumentPointerUp(w2)} :
       \E w4 \in {handleTrayClick(w3, TRUE, id)} :
         /\ ui' = [w4 EXCEPT !.ptr.at = IF ui.isTouchDevice THEN Away ELSE OnTray(id)]
         /\ drv' = Tracked(w4, "none", [NoEvent EXCEPT !.kind = "tray"])
    /\ UNCHANGED notSearching

\* A tap on a cell of the board
TapBoard ==
  \E cell \in TapCells :
    /\ Running
    /\ ~ui.ptr.down
    /\ \E w1 \in {IF ui.isTouchDevice THEN Begin(ui)
                   ELSE handleDocumentPointerMove(Begin(ui), OnBoard(cell[1], cell[2]), FALSE)} :
       \E w2 \in {handleBoardPointerDown(w1, cell[1], cell[2])} :
       \E w3 \in {handleDocumentPointerUp(w2)} :
       \E w4 \in {handleBoardClick(w3, TRUE, cell[1], cell[2])} :
         /\ ui' = [w4 EXCEPT !.ptr.at = IF ui.isTouchDevice THEN Away
                                        ELSE OnBoard(cell[1], cell[2])]
         /\ drv' = Tracked(w4, "none", [kind |-> "board", col |-> cell[1], row |-> cell[2],
                                       piece |-> ui.cells[cell[2]][cell[1]]])
    /\ UNCHANGED notSearching

\* A click on the Rotate or the Flip button of the side bar
TurnButton ==
  \E turn \in {"r", "f"} :
    /\ Running
    /\ ~ui.ptr.down
    /\ Len(drv.ops) < MaxTurns
    /\ \E w1 \in {IF turn = "r" THEN rotateSelected(Begin(ui)) ELSE flipSelected(Begin(ui))} :
         /\ ui' = w1
         /\ drv' = Tracked(w1, IF ui.state.selected.id = NULL THEN "none" ELSE turn,
                           [NoEvent EXCEPT !.kind = "turn"])
    /\ UNCHANGED notSearching

\* A click on Cancel in the action bar
CancelButton ==
  /\ Running
  /\ ~ui.ptr.down
  /\ ui.actionsShown
  /\ \E w1 \in {deselectPiece(Begin(ui))} :
       /\ ui' = w1
       /\ drv' = Tracked(w1, "none", [NoEvent EXCEPT !.kind = "cancel"])
  /\ UNCHANGED notSearching

NextHand == TapTray \/ TapBoard \/ TurnButton \/ CancelButton

SpecHand == InitHand /\ [][NextHand]_vars

\* The shape a base shape becomes by a sequence of turns, as a set of cells
RECURSIVE Turned(_, _)
Turned(shape, ops) ==
  IF ops = <<>> THEN shape
  ELSE Turned(IF Head(ops) = "r" THEN rotate90CW(shape) ELSE flipH(shape), Tail(ops))

\* The cells of a board that differ from another's
Changed(a, b) == {cell \in Grid : a[cell[2]][cell[1]] # b[cell[2]][cell[1]]}

\* C33: a board click in 'selected' mode places the orientation in hand:
\* with the base shape of the piece turned by every Rotate and Flip since
\* the selection, and translated so that its anchor cell (the cell nearest
\* the centre) lies on the clicked cell, the cells that receive the piece
\* id are exactly the cells of that shape when all of them are in the grid
\* and empty, and no other cell changes; otherwise no cell changes and the
\* piece stays in hand.
C33_PlacesShapeInHand ==
  [][(drv'.ev.kind = "board" /\ ui.state.mode = "selected") =>
       LET id    == ui.state.selected.id
           shape == Turned(PIECE_MAP[id].shape, drv.ops)
           a     == computeAnchor(shape)
           cells == ShapeCells(shape, drv'.ev.col - a.anchorCol, drv'.ev.row - a.anchorRow)
           valid == /\ cells \subseteq Grid
                    /\ \A cell \in cells : ui.state.board[cell[2]][cell[1]] = NULL
       IN /\ <<drv'.ev.col, drv'.ev.row>> \in cells
          /\ IF valid
             THEN /\ Changed(ui.state.board, ui'.state.board) = cells
                  /\ \A cell \in cells : ui'.state.board[cell[2]][cell[1]] = id
                  /\ id \in DOMAIN ui'.state.placed
                  /\ ui'.state.selected.id = NULL
             ELSE /\ ui'.state.board = ui.state.board
                  /\ ui'.state.placed = ui.state.placed
                  /\ ui'.state.selected = ui.state.selected
                  /\ ui'.state.mode = "selected"]_vars

\* L, rotated once, has been placed by a tap on (5,1): it occupies three
\* cells of column 5; another piece is on the board as well.
C33_Witness ==
  /\ drv.phase = "hand"
  /\ drv.ev.kind = "board"
  /\ "L" \in DOMAIN ui.state.placed
  /\ CellsOf(ui.state.board, "L") = {<<5, 0>>, <<5, 1>>, <<5, 2>>}
  /\ "D" \in DOMAIN ui.state.placed
  /\ ui.state.selected.id = NULL

----------------------------------------------------------------------------
(* Rotation and flip of the piece in hand against the orientation table.   *)

\* The last n turns of the piece in hand are all the turn t
LastTurns(ops, n, t) ==
  Len(ops) >= n /\ \A k \in (Len(ops) - n + 1)..Len(ops) : ops[k] = t

\* C34: rotation and flip stay inside the orientation table: for every
\* piece and every orientation o of it, rotate90CW(o) and flipH(o) are
\* entries of the piece's orientation list; so rotateSelected never takes
\* its next-index fallback (the shape in hand after a Rotate is the rotated
\* shape, after a Flip the flipped shape), four successive rotations bring
\* the piece in hand back to the orientation index it had, and two
\* successive flips do likewise.  (The table being constant, its closure
\* is evaluated at the first event only.)
C34_TurnsStayInTable ==
  [][drv'.phase = "hand" =>
       /\ drv.ev.kind = "none" =>
            \A p \in PieceIds : \A n \in 1..Len(ORIENTATIONS[p]) :
              /\ findIndex(ORIENTATIONS[p], shapeKey(rotate90CW(ORIENTATIONS[p][n]))) # -1
              /\ findIndex(ORIENTATIONS[p], shapeKey(flipH(ORIENTATIONS[p][n]))) # -1
       /\ (Len(drv'.ops) = Len(drv.ops) + 1 /\ drv'.ops[Len(drv'.ops)] = "r")
            => /\ ui'.state.selected.shape = rotate90CW(ui.state.selected.shape)
               /\ ui'.state.selected.shape
                    = ORIENTATIONS[ui'.state.selected.id][ui'.state.selected.orientationIndex + 1]
       /\ (Len(drv'.ops) = Len(drv.ops) + 1 /\ drv'.ops[Len(drv'.ops)] = "f")
            => /\ ui'.state.selected.shape = flipH(ui.state.selected.shape)
               /\ ui'.state.selected.shape
                    = ORIENTATIONS[ui'.state.selected.id][ui'.state.selected.orientationIndex + 1]
       /\ LastTurns(drv'.ops, 4, "r")
            => drv'.trail[Len(drv'.trail)] = drv'.trail[Len(drv'.trail) - 4]
       /\ LastTurns(drv'.ops, 2, "f")
            => drv'.trail[Len(drv'.trail)] = drv'.trail[Len(drv'.trail) - 2]]_vars

\* D is in hand after four rotations in a row that took it through four
\* different orientation indices and back to the first.
C34_Witness ==
  /\ drv.phase = "hand"
  /\ ui.state.selected.id = "D"
  /\ drv.ops = <<"r", "r", "r", "r">>
  /\ Cardinality({drv.trail[n] : n \in 1..4}) = 4
  /\ drv.trail[5] = drv.trail[1]
  /\ ui.state.selected.orientationIndex = drv.trail[1]

----------------------------------------------------------------------------
(* Removal by a click, and Cancel.                                         *)

\* C35: in idle mode a click on a cell of a placed piece that is not locked
\* removes exactly that piece: all its cells become empty and no other cell
\* changes, it leaves state.placed and is back in the tray, and the other
\* placed pieces stay as they are; a click on an empty cell changes
\* nothing; Cancel takes the piece out of the hand and changes no cell.
C35_RemoveAndCancel ==
  [][/\ (drv'.ev.kind = "board" /\ ui.state.mode = "idle") =>
          LET id == ui.state.board[drv'.ev.row][drv'.ev.col]
          IN IF id # NULL /\ id = drv'.ev.piece /\ id \notin ui.state.lockedPieces
             THEN /\ Changed(ui.state.board, ui'.state.board) = CellsOf(ui.state.board, id)
                  /\ \A cell \in CellsOf(ui.state.board, id) :
                       ui'.state.board[cell[2]][cell[1]] = NULL
                  /\ CellsOf(ui.state.board, id)
                       = ShapeCells(ui.state.placed[id].shape, ui.state.placed[id].col,
                                    ui.state.placed[id].row)
                  /\ DOMAIN ui'.state.placed = DOMAIN ui.state.placed \ {id}
                  /\ \A q \in DOMAIN ui'.state.placed : ui'.state.placed[q] = ui.state.placed[q]
                  /\ ui'.state.tray = ui.state.tray \cup {id}
                  /\ ui'.state.selected.id = NULL
             ELSE /\ ui'.state.board = ui.state.board
                  /\ ui'.state.placed = ui.state.placed
                  /\ ui'.state.tray = ui.state.tray
     /\ drv'.ev.kind = "cancel" =>
          /\ ui.state.selected.id # NULL
          /\ ui'.state.selected.id = NULL
          /\ ui'.state.mode = "idle"
          /\ ui'.state.board = ui.state.board
          /\ ui'.state.placed = ui.state.placed
          /\ ui'.state.tray = ui.state.tray]_vars

\* The last tap was on a cell of the board that showed L, in idle mode: the
\* cell is empty now, L is back in the tray, and D is on the board with all
\* its cells.
C35_Witness ==
  /\ drv.phase = "hand"
  /\ drv.ev.kind = "board"
  /\ ui.state.mode = "idle"
  /\ ui.state.board[drv.ev.row][drv.ev.col] = NULL
  /\ drv.ev.piece = "L"
  /\ "L" \in ui.state.tray
  /\ DOMAIN ui.state.placed = {"D"}
  /\ Cardinality(CellsOf(ui.state.board, "D")) = 5

----------------------------------------------------------------------------
(* game.js: the progress record.  showWin hands the elapsed time of a      *)
(* completed challenge to markChallengeCompleted; the record is written to *)
(* localStorage and read back when the page is loaded again.  drv holds    *)
(* state.progress.completed, the stored text, the number of completions so *)
(* far (standing for the date) and, for each challenge, the times it was   *)
(* completed in.                                                           *)

\* The elapsed times a completion has, 0..MaxTime
MaxTime == 3

\* The completions followed
MaxCompletions == 4

\* The challenges completed
ProgressIds == {1, 2}

\* The property name a challenge id becomes in state.progress.completed
KeyOf(id) == <<"1", "2">>[id]

\* JSON.stringify(state.progress): the entries of completed, the keys in
\* ascending order
stringify(completed) ==
  LET ids == SelectSeq(<<1, 2>>, LAMBDA id : KeyOf(id) \in DOMAIN completed)
  IN [n \in 1..Len(ids) |-> [key |-> KeyOf(ids[n]),
                             time |-> completed[KeyOf(ids[n])].time,
                             completedAt |-> completed[KeyOf(ids[n])].completedAt]]

\* JSON.parse(raw)
parse(text) ==
  [k \in {text[n].key : n \in 1..Len(text)} |->
     LET e == CHOOSE e \in {text[n] : n \in 1..Len(text)} : e.key = k
     IN [time |-> e.time, completedAt |-> e.completedAt]]

\* localStorage.getItem(STORAGE_KEY) with nothing stored
NoItem == [isNull |-> TRUE, text |-> <<>>]

saveProgress(d) == [d EXCEPT !.storage = [isNull |-> FALSE, text |-> stringify(d.completed)]]

loadProgress(d) ==
  IF d.storage.isNull THEN d ELSE [d EXCEPT !.completed = parse(d.storage.text)]

\* A version that stores every completion
markChallengeCompletedAlways(d, challengeId, timeMs) ==
  saveProgress([d EXCEPT !.completed = MapSet(@, KeyOf(challengeId),
                                               [time |-> timeMs, completedAt |-> d.clock])])

markChallengeCompleted(d, challengeId, timeMs) ==
  LET key == KeyOf(challengeId)
  IN IF key \notin DOMAIN d.completed \/ timeMs < d.completed[key].time
     THEN saveProgress([d EXCEPT !.completed = MapSet(@, key,
                                                 [time |-> timeMs, completedAt |-> d.clock])])
     ELSE d

InitProgress ==
  /\ Idle
  /\ drv = [phase |-> "progress", completed |-> EmptyMap, storage |-> NoItem, clock |-> 0,
            times |-> [id \in ProgressIds |-> {}]]

\* showWin in challenge mode: markChallengeCompleted(ch.id, state.timerElapsed)
ChallengeCompleted ==
  \E id \in ProgressIds : \E timeMs \in 0..MaxTime :
    /\ drv.phase = "progress"
    /\ drv.clock < MaxCompletions
    /\ drv' = markChallengeCompleted([drv EXCEPT !.clock = @ + 1,
                                                 !.times[id] = @ \cup {timeMs}],
                                     id, timeMs)
    /\ UNCHANGED <<heap, callBoard, workBoard, boardAtCall, availablePieceIds, idsAtCall,
                   mode, maxCount, remaining, solution, counter, stack, pc, result, ui>>

\* The page is loaded again: state.progress = { completed: {} }; loadProgress()
PageReload ==
  /\ drv.phase = "progress"
  /\ drv' = loadProgress([drv EXCEPT !.completed = EmptyMap])
  /\ UNCHANGED <<heap, callBoard, workBoard, boardAtCall, availablePieceIds, idsAtCall,
                 mode, maxCount, remaining, solution, counter, stack, pc, result, ui>>

NextProgress == ChallengeCompleted \/ PageReload

SpecProgress == InitProgress /\ [][NextProgress]_vars

\* The least number of a non-empty set
LeastOf(set) == CHOOSE x \in set : \A y \in set : x <= y

====
